---- MODULE Spec2Model ----
(***************************************************************************)
(* Model of the HLS stream downloader backend (server/server.js) and of    *)
(* the browser-side playlist parser (utils/clientPlaylistParser.ts).       *)
(*                                                                         *)
(* Strings are sequences of lexemes.  A lexeme is a TLA+ string standing   *)
(* for a fixed non-empty run of characters; the separators the code looks  *)
(* at character by character ("/", "?", ",", " ", the line feed, the       *)
(* double quote) are lexemes of their own, so that startsWith, includes,   *)
(* lastIndexOf, split and trim are computed on the sequence exactly as the *)
(* code computes them on characters.                                       *)
(***************************************************************************)
EXTENDS Integers, Sequences, FiniteSets, TLC

(***************************************************************************)
(* String primitives of JavaScript used by the code                        *)
(***************************************************************************)
NL == "\n"
SP == " "

\* String.prototype.startsWith
StartsWith(s, p) == Len(s) >= Len(p) /\ SubSeq(s, 1, Len(p)) = p

\* String.prototype.includes
Includes(s, p) == \E i \in 1..(Len(s) - Len(p) + 1) : SubSeq(s, i, i + Len(p) - 1) = p

\* String.prototype.lastIndexOf for a one-lexeme needle; 0-based, -1 when absent
LastIndexOf(s, c) ==
  LET hits == {i \in 1..Len(s) : s[i] = c}
  IN  IF hits = {} THEN -1 ELSE (CHOOSE i \in hits : \A j \in hits : j <= i) - 1

\* 0-based index of the first occurrence of a one-lexeme needle, -1 when absent
IndexOf(s, c) ==
  LET hits == {i \in 1..Len(s) : s[i] = c}
  IN  IF hits = {} THEN -1 ELSE (CHOOSE i \in hits : \A j \in hits : i <= j) - 1

\* String.prototype.substring(0, n)
Substring0(s, n) == SubSeq(s, 1, n)

\* String.prototype.substring(n)
SubstringFrom(s, n) == SubSeq(s, n + 1, Len(s))

\* String.prototype.split(c): the pieces between the occurrences of c
RECURSIVE Split(_, _)
Split(s, c) ==
  LET i == IndexOf(s, c)
  IN  IF i = -1 THEN <<s>>
      ELSE <<Substring0(s, i)>> \o Split(SubstringFrom(s, i + 1), c)

\* Array.prototype.join(c)
RECURSIVE Join(_, _)
Join(ss, c) ==
  IF Len(ss) = 0 THEN <<>>
  ELSE IF Len(ss) = 1 THEN ss[1]
  ELSE ss[1] \o <<c>> \o Join(Tail(ss), c)

\* String.prototype.trim (the white space of the model is SP)
RECURSIVE TrimLeft(_)
TrimLeft(s) == IF Len(s) > 0 /\ s[1] = SP THEN TrimLeft(Tail(s)) ELSE s

RECURSIVE TrimRight(_)
TrimRight(s) ==
  IF Len(s) > 0 /\ s[Len(s)] = SP THEN TrimRight(SubSeq(s, 1, Len(s) - 1)) ELSE s

Trim(s) == TrimLeft(TrimRight(s))

\* Array.prototype.filter(Boolean) on an array of strings: drops the empty ones
RECURSIVE FilterNonEmpty(_)
FilterNonEmpty(ss) ==
  IF Len(ss) = 0 THEN <<>>
  ELSE IF ss[1] = <<>> THEN FilterNonEmpty(Tail(ss))
  ELSE <<ss[1]>> \o FilterNonEmpty(Tail(ss))

\* Array.prototype.map(l => l.trim())
MapTrim(ss) == [i \in 1..Len(ss) |-> Trim(ss[i])]

\* String.prototype.toLowerCase / toUpperCase, lexeme by lexeme
LowerLexeme(t) ==
  CASE t = "NETFLIX.COM" -> "netflix.com"
    [] t = "CDN.EXAMPLE.COM" -> "cdn.example.com"
    [] t = "HTTP:" -> "http:"
    [] t = "HTTPS:" -> "https:"
    [] OTHER -> t

UpperLexeme(t) ==
  CASE t = "none" -> "NONE"
    [] t = "None" -> "NONE"
    [] t = "aes-128" -> "AES-128"
    [] OTHER -> t

ToLowerCase(s) == [i \in 1..Len(s) |-> LowerLexeme(s[i])]
ToUpperCase(s) == [i \in 1..Len(s) |-> UpperLexeme(s[i])]

(***************************************************************************)
(* The WHATWG URL class, as far as the code depends on it.  A URL string   *)
(* is   scheme "/" "/" host-lexemes path [ "?" query ]   ; the path starts *)
(* at the first "/" after the host.                                        *)
(***************************************************************************)
SchemeLexemes == {"http:", "https:", "HTTP:", "HTTPS:"}

\* the result of a constructor that threw
Thrown == [ok |-> FALSE]

\* lexemes no host may contain
ForbiddenHostLexemes == {SP, "[", "\"", "#", ","}

\* index (1-based) of the first lexeme of s at or after position i that is in set S, Len(s)+1 if none
FirstIn(s, i, S) ==
  LET hits == {k \in i..Len(s) : s[k] \in S}
  IN  IF hits = {} THEN Len(s) + 1 ELSE CHOOSE k \in hits : \A j \in hits : k <= j

\* WHATWG "remove dot segments" on a list of path segments
RECURSIVE RemoveDots(_, _)
RemoveDots(segs, acc) ==
  IF Len(segs) = 0 THEN acc
  ELSE LET s == segs[1]
           last == Len(segs) = 1
       IN  IF s = <<"..">>
           THEN RemoveDots(Tail(segs),
                  (IF Len(acc) > 0 THEN SubSeq(acc, 1, Len(acc) - 1) ELSE acc)
                    \o (IF last THEN << <<>> >> ELSE <<>>))
           ELSE IF s = <<".">>
           THEN RemoveDots(Tail(segs), acc \o (IF last THEN << <<>> >> ELSE <<>>))
           ELSE RemoveDots(Tail(segs), Append(acc, s))

\* percent-encoding of the path: a space becomes %20
EncodePathLexeme(t) == IF t = SP THEN "%20" ELSE t
EncodePath(p) == [i \in 1..Len(p) |-> EncodePathLexeme(p[i])]

\* a path string (starting with "/") normalised as the URL parser stores it
NormalizePath(p) ==
  LET segs == Split(SubstringFrom(p, 1), "/")
      kept == RemoveDots(segs, <<>>)
  IN  <<"/">> \o EncodePath(Join(IF Len(kept) = 0 THEN << <<>> >> ELSE kept, "/"))

\* the URL parser skips any further slashes before the host of an http(s) URL
RECURSIVE SkipSlashes(_)
SkipSlashes(s) == IF Len(s) > 0 /\ s[1] = "/" THEN SkipSlashes(Tail(s)) ELSE s

\* authority and the rest of "host path ? query", after the two slashes
ParseAfterSlashes(scheme, afterSlashes) ==
  LET rest  == SkipSlashes(afterSlashes)
      hEnd  == FirstIn(rest, 1, {"/", "?"})
      host  == ToLowerCase(SubSeq(rest, 1, hEnd - 1))
      qAt   == FirstIn(rest, hEnd, {"?"})
      rawP  == SubSeq(rest, hEnd, qAt - 1)
      query == SubSeq(rest, qAt, Len(rest))
  IN  IF host = <<>> \/ (\E i \in 1..Len(host) : host[i] \in ForbiddenHostLexemes)
      THEN Thrown
      ELSE [ok |-> TRUE, protocol |-> scheme, hostname |-> host,
            pathname |-> (IF rawP = <<>> THEN <<"/">> ELSE NormalizePath(rawP)),
            search |-> (IF Len(query) = 1 THEN <<>> ELSE query)]

\* new URL(u): throws unless u is an absolute URL
NewURL(u) ==
  IF Len(u) >= 3 /\ u[1] \in SchemeLexemes /\ u[2] = "/" /\ u[3] = "/"
  THEN ParseAfterSlashes(LowerLexeme(u[1]), SubstringFrom(u, 3))
  ELSE Thrown

\* URL.prototype.origin
Origin(url) == <<url.protocol, "/", "/">> \o url.hostname

\* URL.prototype.href
Href(url) == Origin(url) \o url.pathname \o url.search

\* new URL(rel, base): relative resolution against an absolute base string
NewURLWithBase(rel, base) ==
  LET b == NewURL(base)
  IN  IF ~b.ok THEN Thrown
      ELSE IF Len(rel) >= 1 /\ rel[1] \in SchemeLexemes THEN NewURL(rel)
      ELSE IF StartsWith(rel, <<"/", "/">>)
           THEN ParseAfterSlashes(b.protocol, SubstringFrom(rel, 2))
      ELSE LET qAt   == FirstIn(rel, 1, {"?"})
               relP  == SubSeq(rel, 1, qAt - 1)
               query == SubSeq(rel, qAt, Len(rel))
               srch  == IF Len(query) = 1 THEN <<>> ELSE query
               dir   == Substring0(b.pathname, LastIndexOf(b.pathname, "/") + 1)
           IN  IF relP = <<>>
               THEN [b EXCEPT !.search = IF qAt > Len(rel) THEN b.search ELSE srch]
               ELSE IF relP[1] = "/"
               THEN [b EXCEPT !.pathname = NormalizePath(relP), !.search = srch]
               ELSE [b EXCEPT !.pathname = NormalizePath(dir \o relP), !.search = srch]

(***************************************************************************)
(* resolveUrl, detectEncryption and the two playlist parsers               *)
(***************************************************************************)
\* JavaScript null where a string is expected: a lexeme no input contains
Null == <<"<null>">>

HttpPrefix == <<"http:", "/", "/">>
HttpsPrefix == <<"https:", "/", "/">>

\* a plausible slip: the pathname of the resolved URL is returned in place of its href
ResolveAgainstDirPathOnly(baseUrl, relativePath, onFail) ==
  LET base == NewURL(baseUrl)
  IN  IF ~base.ok THEN onFail
      ELSE LET basePath == Substring0(base.pathname, LastIndexOf(base.pathname, "/") + 1)
               resolved == NewURLWithBase(relativePath, Origin(base) \o basePath)
           IN  IF resolved.ok THEN resolved.pathname ELSE onFail

\* what the resolvers do when the reference does not start with a scheme prefix:
\* resolve against origin + directory of the base, onFail when a constructor throws
ResolveAgainstDir(baseUrl, relativePath, onFail) ==
  LET base == NewURL(baseUrl)
  IN  IF ~base.ok THEN onFail
      ELSE LET basePath == Substring0(base.pathname, LastIndexOf(base.pathname, "/") + 1)
               resolved == NewURLWithBase(relativePath, Origin(base) \o basePath)
           IN  IF resolved.ok THEN Href(resolved) ELSE onFail

\* a plausible slip: an absolute reference is passed through the URL parser as well
resolveUrlAlwaysParsed(baseUrl, relativePath) ==
  IF relativePath = <<>> \/ relativePath = Null THEN Null
  ELSE ResolveAgainstDir(baseUrl, relativePath, Null)

\* server/server.js resolveUrl: null for an empty reference or a failed resolution
resolveUrl(baseUrl, relativePath) ==
  IF relativePath = <<>> \/ relativePath = Null THEN Null
  ELSE IF StartsWith(relativePath, HttpPrefix) \/ StartsWith(relativePath, HttpsPrefix)
  THEN relativePath
  ELSE ResolveAgainstDir(baseUrl, relativePath, Null)

\* clientPlaylistParser.ts resolveUrl: the reference itself on a failed resolution
resolveUrlClient(baseUrl, relativePath) ==
  IF StartsWith(relativePath, HttpPrefix) \/ StartsWith(relativePath, HttpsPrefix)
  THEN relativePath
  ELSE ResolveAgainstDir(baseUrl, relativePath, relativePath)

Digits == {"1", "2", "5"}
DigitValue(d) == CASE d = "1" -> 1 [] d = "2" -> 2 [] d = "5" -> 5 [] OTHER -> 0

\* the longest run of lexemes of class S that starts at position i of s
RunFrom(s, i, S) ==
  LET stop == FirstIn(s, i, {s[k] : k \in i..Len(s)} \ S)
  IN  SubSeq(s, i, stop - 1)

\* String.prototype.match(/KEY(C+)/): the capture of the leftmost match, Null when none
MatchAfter(s, key, S) ==
  LET hits == {i \in 1..(Len(s) - 1) : s[i] = key /\ s[i + 1] \in S}
  IN  IF hits = {} THEN Null
      ELSE RunFrom(s, (CHOOSE i \in hits : \A j \in hits : i <= j) + 1, S)

\* parseInt(digits, 10)
RECURSIVE ParseInt(_)
ParseInt(ds) ==
  IF Len(ds) = 0 THEN 0
  ELSE 10 * ParseInt(SubSeq(ds, 1, Len(ds) - 1)) + DigitValue(ds[Len(ds)])

\* attrs.match(/RESOLUTION=(\d+x\d+)/): the capture, Null when none
MatchResolution(attrs) ==
  LET good(i) == /\ attrs[i] = "RESOLUTION="
                 /\ i < Len(attrs) /\ attrs[i + 1] \in Digits
                 /\ LET w == RunFrom(attrs, i + 1, Digits)
                        x == i + 1 + Len(w)
                    IN  x < Len(attrs) /\ attrs[x] = "x" /\ attrs[x + 1] \in Digits
      hits == {i \in 1..Len(attrs) : good(i)}
  IN  IF hits = {} THEN Null
      ELSE LET i == CHOOSE k \in hits : \A j \in hits : k <= j
               w == RunFrom(attrs, i + 1, Digits)
               h == RunFrom(attrs, i + 2 + Len(w), Digits)
           IN  w \o <<"x">> \o h

\* one match of /#EXT-X-KEY:([^\n]+)/g in a raw line: the attributes, Null when none
KeyAttributes(line) ==
  LET hits == {i \in 1..(Len(line) - 2) : line[i] = "#EXT-X-KEY" /\ line[i + 1] = ":"}
  IN  IF hits = {} THEN Null
      ELSE SubstringFrom(line, (CHOOSE i \in hits : \A j \in hits : i <= j) + 1)

\* a plausible slip: any key tag counts, whatever its METHOD
detectEncryptionAnyKey(c) == Includes(c, <<"#EXT-X-KEY", ":">>)

\* detectEncryption: some key tag declares a METHOD that is not NONE
detectEncryption(c) ==
  LET raw == Split(c, NL)
  IN  \E k \in 1..Len(raw) :
        LET attributes == KeyAttributes(raw[k])
        IN  /\ attributes # Null
            /\ LET methodMatch ==
                     MatchAfter(attributes, "METHOD=",
                                {attributes[i] : i \in 1..Len(attributes)} \ {",", SP})
               IN  methodMatch # Null /\ ToUpperCase(methodMatch) # <<"NONE">>

\* lexemes whose first character is '#'
HashLexemes == {"#EXTM3U", "#EXT-X-STREAM-INF", "#EXT-X-KEY", "#EXT-X-ENDLIST", "#EXTINF", "#"}

StreamInfPrefix == <<"#EXT-X-STREAM-INF", ":">>

\* the first line after line i that does not start with '#', Null when there is none
NextUriLine(lines, i) ==
  LET js == {j \in (i + 1)..Len(lines) : lines[j][1] \notin HashLexemes}
  IN  IF js = {} THEN Null ELSE lines[CHOOSE j \in js : \A k \in js : j <= k]

\* a plausible slip: a variant is placed before the variants of equal bandwidth
RECURSIVE InsertByBandwidthBeforeTies(_, _)
InsertByBandwidthBeforeTies(sorted, q) ==
  IF Len(sorted) = 0 THEN <<q>>
  ELSE IF sorted[Len(sorted)].bandwidth > q.bandwidth THEN Append(sorted, q)
  ELSE Append(InsertByBandwidthBeforeTies(SubSeq(sorted, 1, Len(sorted) - 1), q),
              sorted[Len(sorted)])

\* Array.prototype.sort((a, b) => b.bandwidth - a.bandwidth): stable, descending
RECURSIVE InsertByBandwidth(_, _)
InsertByBandwidth(sorted, q) ==
  IF Len(sorted) = 0 THEN <<q>>
  ELSE IF sorted[Len(sorted)].bandwidth >= q.bandwidth THEN Append(sorted, q)
  ELSE Append(InsertByBandwidth(SubSeq(sorted, 1, Len(sorted) - 1), q), sorted[Len(sorted)])

\* a plausible slip: the variants are left in encounter order
SortByBandwidthOmitted(qs) == qs

RECURSIVE SortByBandwidth(_)
SortByBandwidth(qs) ==
  IF Len(qs) = 0 THEN <<>>
  ELSE InsertByBandwidth(SortByBandwidth(SubSeq(qs, 1, Len(qs) - 1)), qs[Len(qs)])

\* the resolver and the "unset" sentinels of the two copies of the parser:
\* server null / null, client '' / ''
ResolveFor(client, baseUrl, reference) ==
  IF client THEN resolveUrlClient(baseUrl, reference) ELSE resolveUrl(baseUrl, reference)

UnsetFor(client) == IF client THEN <<>> ELSE Null

\* the quality built for the stream-variant tag on line i; url is falsy when unresolved
VariantOf(lines, i, baseUrl, client) ==
  LET attrs == SubstringFrom(lines[i], 2)
      bandwidthMatch == MatchAfter(attrs, "BANDWIDTH=", Digits)
      resolutionMatch == MatchResolution(attrs)
      uriLine == NextUriLine(lines, i)
  IN  [resolution |-> IF resolutionMatch # Null THEN resolutionMatch ELSE UnsetFor(client),
       bandwidth |-> IF bandwidthMatch # Null THEN ParseInt(bandwidthMatch) ELSE 0,
       url |-> IF uriLine # Null THEN ResolveFor(client, baseUrl, uriLine) ELSE UnsetFor(client)]

\* the loop over the lines of a master playlist: the variants whose url is truthy
RECURSIVE CollectVariants(_, _, _, _)
CollectVariants(lines, i, baseUrl, client) ==
  IF i > Len(lines) THEN <<>>
  ELSE LET rest == CollectVariants(lines, i + 1, baseUrl, client)
           quality == VariantOf(lines, i, baseUrl, client)
       IN  IF StartsWith(lines[i], StreamInfPrefix) /\ quality.url \notin {Null, <<>>}
           THEN <<quality>> \o rest
           ELSE rest

\* a plausible slip: the end-of-list marker counts only as the last line of the playlist
IsLiveUnlessLastLine(c) ==
  LET lines == FilterNonEmpty(MapTrim(Split(c, NL)))
  IN  ~(Len(lines) > 0 /\ lines[Len(lines)] = <<"#EXT-X-ENDLIST">>)

\* isLive: true until content.includes('#EXT-X-ENDLIST')
IsLive(c) == ~Includes(c, <<"#EXT-X-ENDLIST">>)

\* the test that sends the parser down the master branch
IsMaster(c) == Includes(c, <<"#EXT-X-STREAM-INF">>)

\* a plausible slip: the single entry of a media playlist carries the directory, not the url
MediaQualityOfDirectory(baseUrl, client) ==
  [resolution |-> UnsetFor(client), bandwidth |-> 0,
   url |-> Substring0(baseUrl, LastIndexOf(baseUrl, "/") + 1)]

\* the single entry pushed for a media playlist
MediaQuality(baseUrl, client) ==
  [resolution |-> UnsetFor(client), bandwidth |-> 0, url |-> baseUrl]

\* the body shared by parseM3u8 and parseM3u8Client
ParsePlaylist(c, baseUrl, client) ==
  LET lines == FilterNonEmpty(MapTrim(Split(c, NL)))
  IN  [type |-> IF IsMaster(c) THEN "master" ELSE "media",
       isLive |-> IsLive(c),
       isEncrypted |-> detectEncryption(c),
       baseUrl |-> Substring0(baseUrl, LastIndexOf(baseUrl, "/") + 1),
       qualities |->
         IF IsMaster(c)
         THEN SortByBandwidth(CollectVariants(lines, 1, baseUrl, client))
         ELSE <<MediaQuality(baseUrl, client)>>]

\* server/server.js parseM3u8
parseM3u8(c, baseUrl) == ParsePlaylist(c, baseUrl, FALSE)

\* clientPlaylistParser.ts parseM3u8Client
parseM3u8Client(c, baseUrl) == ParsePlaylist(c, baseUrl, TRUE)

(***************************************************************************)
(* State                                                                   *)
(***************************************************************************)
VARIABLES
  content,      \* parser check: the playlist text handed to the parser
  sourceUrl,    \* parser check: the URL the playlist was fetched from
  parser,       \* parser check: "none", "server" or "client": who produced parsed
  parsed,       \* parser check: <<>> or <<the analysis returned>>
  inbound,      \* the inbound request [path, url, range, quality]; path "none" before it arrives
  pc,           \* where the handler is: "idle", "fetching", "reading", "piping", "done"
  hops,         \* the outbound requests of fetchWithTimeout, one per redirect hop; a hop's
                \* timedOut records that its timer fired before anything was sent to the client
  promise,      \* the promise handleX awaits: "none", "pending", "fulfilled", "timeout", "error"
  upstreamReq,  \* handleProxy's local upstreamReq: 0 for null, else the hop
  closeListener,\* whether res.on('close', ...) has been registered
  out,          \* the client-facing response object
  base,         \* resolver check: the base URL handed to resolveUrl
  reference,    \* resolver check: the reference handed to resolveUrl
  resolver,     \* resolver check: "none", "server" or "client": which copy was applied
  result,       \* resolver check: <<>> or <<what resolveUrl(base, reference) returned>>
  again,        \* resolver check: <<>> or <<what resolveUrl(base, result[1]) returned>>
  page,         \* the Index page: its React state and that of its download section
  downloader,   \* the useClientDownloader hook: its state, refs and load timers
  downloads,    \* the worker: one record per /download request, with its ffmpeg process
  activeProcesses, \* the worker: the registry the SIGTERM handler walks
  signals,      \* the worker: the shutdown signals delivered to the process so far
  defaults,     \* the server module's DEFAULT_BROWSER_HEADERS object
  requests      \* several inbound requests in flight at once, one record each

parseVars == <<content, sourceUrl, parser, parsed>>
serverVars == <<inbound, pc, hops, promise, upstreamReq, closeListener, out>>
resolveVars == <<base, reference, resolver, result, again>>
pageVars == <<page, downloader>>
workerVars == <<downloads, activeProcesses, signals>>
concurrentVars == <<defaults, requests>>
vars == <<content, sourceUrl, parser, parsed, inbound, pc, hops, promise, upstreamReq,
          closeListener, out, base, reference, resolver, result, again,
          page, downloader, downloads, activeProcesses, signals, defaults, requests>>

(***************************************************************************)
(* Inputs of the parser check                                              *)
(***************************************************************************)
MaxLines == 3

PlaylistLines ==
  { <<"#EXT-X-ENDLIST">>,
    <<"#EXT-X-STREAM-INF", ":", "BANDWIDTH=", "5", ",", "RESOLUTION=", "1", "x", "2">>,
    <<"#EXT-X-STREAM-INF", ":", "BANDWIDTH=", "2">>,
    <<"#EXT-X-STREAM-INF", ":", "AVERAGE-", "BANDWIDTH=", "2", ",", "BANDWIDTH=", "5">>,
    <<"#EXT-X-STREAM-INF", ":", "RESOLUTION=", "1", "x", "2">>,
    <<"#EXT-X-STREAM-INF", ":", "CODECS=", "avc1">>,
    <<"#EXT-X-STREAM-INF">>,
    <<"#EXT-X-KEY", ":", "METHOD=", "AES-128">>,
    <<"#EXT-X-KEY", ":", "METHOD=", "none", ",", "URI=", "\"", "key", ".bin", "\"">>,
    <<"#EXT-X-KEY", ":", "URI=", "\"", "key", ".bin", "\"">>,
    <<"720p", "/", "playlist", ".m3u8">>,
    <<SP, "..", "/", "seg", ".ts">>,
    <<"https:", "/", "/", "cdn2.example.com", "/", "v", ".m3u8">>,
    <<"/", "/">>,
    <<>> }

SourceUrls ==
  { <<"https:", "/", "/", "cdn.example.com", "/", "video", "/", "master", ".m3u8">>,
    <<"http:", "/", "/", "CDN.EXAMPLE.COM", "/", "index", ".m3u8", "?", "t=", "a", "/", "b">>,
    <<"/", "video", "/", "master", ".m3u8">> }

\* the texts of 1..n lines
RECURSIVE LinesUpTo(_)
LinesUpTo(n) ==
  IF n = 0 THEN {}
  ELSE {<<l>> : l \in PlaylistLines}
       \cup {Append(ls, l) : ls \in LinesUpTo(n - 1), l \in PlaylistLines}

\* the bodies handed on: a marker line followed by up to MaxLines lines, and one text
\* that is no playlist
Contents ==
  {Join(<< <<"#EXTM3U">> >> \o ls, NL) : ls \in LinesUpTo(MaxLines)} \cup {<<"<html>">>}

IsValidUrl(u) == NewURL(u).ok

IdleOut ==
  [headWrites |-> 0, status |-> 0, error |-> "", headers |-> {}, text |-> <<>>,
   analysis |-> <<>>, body |-> <<>>, ended |-> FALSE, closed |-> FALSE]

ServerIdle ==
  /\ inbound = [path |-> "none", url |-> Null, range |-> Null, quality |-> Null]
  /\ pc = "idle"
  /\ hops = <<>>
  /\ promise = "none"
  /\ upstreamReq = 0
  /\ closeListener = FALSE
  /\ out = IdleOut

ParserIdle ==
  /\ content = <<>>
  /\ sourceUrl = <<>>
  /\ parser = "none"
  /\ parsed = <<>>

ResolverIdle ==
  /\ base = <<>>
  /\ reference = <<>>
  /\ resolver = "none"
  /\ result = <<>>
  /\ again = <<>>

\* the page before anything was submitted
IdlePage ==
  [analysis |-> <<>>, isClientOnly |-> FALSE, isLoading |-> FALSE, error |-> FALSE,
   pending |-> "none", preparing |-> FALSE, phase |-> "idle", started |-> {}]

\* the hook before startDownload: phase 'idle', no iframe, no listener, no timer
IdleDownloader ==
  [phase |-> "idle", error |-> "", cancelled |-> FALSE, iframe |-> FALSE, listener |-> FALSE,
   timers |-> <<>>]

PageIdle == page = IdlePage /\ downloader = IdleDownloader

MaxDownloads == 2

\* a /download request the worker has not received yet
IdleDownload ==
  [st |-> "none", ffmpeg |-> "none", killed |-> FALSE, hasStarted |-> FALSE, hasError |-> FALSE,
   status |-> 0, error |-> "", ended |-> FALSE, closed |-> FALSE]

WorkerIdle ==
  /\ downloads = [d \in 1..MaxDownloads |-> IdleDownload]
  /\ activeProcesses = {}
  /\ signals = <<>>

MaxRequests == 2

\* the Range entry of DEFAULT_BROWSER_HEADERS: there is none
DEFAULT_BROWSER_HEADERS == [Range |-> Null]

\* an inbound request that has not arrived yet
IdleRequest ==
  [path |-> "none", url |-> Null, range |-> Null, quality |-> Null, st |-> "none",
   headers |-> DEFAULT_BROWSER_HEADERS, prof |-> 0, response |-> <<>>, overlapped |-> FALSE]

ConcurrentIdle ==
  /\ defaults = DEFAULT_BROWSER_HEADERS
  /\ requests = [i \in 1..MaxRequests |-> IdleRequest]

(***************************************************************************)
(* The parser check: the two parsers applied to every bounded input        *)
(***************************************************************************)
ParseInit ==
  /\ content \in Contents
  /\ sourceUrl \in SourceUrls
  /\ parser = "none"
  /\ parsed = <<>>
  /\ ServerIdle
  /\ ResolverIdle
  /\ PageIdle /\ WorkerIdle /\ ConcurrentIdle

\* handleAnalyze has validated the url with new URL() and found the marker in the body
\* before parseM3u8 sees them
ParseServer ==
  /\ parser = "none"
  /\ IsValidUrl(sourceUrl)
  /\ Includes(content, <<"#EXTM3U">>)
  /\ parser' = "server"
  /\ parsed' = <<parseM3u8(content, sourceUrl)>>
  /\ UNCHANGED <<content, sourceUrl>>
  /\ UNCHANGED <<serverVars, resolveVars, pageVars, workerVars, concurrentVars>>

\* fetchAndParsePlaylist hands parseM3u8Client whatever url fetch() accepted, once it has
\* found the marker in the body
ParseClient ==
  /\ parser = "none"
  /\ Includes(content, <<"#EXTM3U">>)
  /\ parser' = "client"
  /\ parsed' = <<parseM3u8Client(content, sourceUrl)>>
  /\ UNCHANGED <<content, sourceUrl>>
  /\ UNCHANGED <<serverVars, resolveVars, pageVars, workerVars, concurrentVars>>

ParseNext == ParseServer \/ ParseClient

ParseSpec == ParseInit /\ [][ParseNext]_vars

(***************************************************************************)
(* The resolver check: the copies of resolveUrl applied to every bounded   *)
(* pair of base and reference, and once more to their own result           *)
(***************************************************************************)
Bases ==
  { <<"https:", "/", "/", "cdn.example.com", "/", "video", "/", "master", ".m3u8">>,
    <<"http:", "/", "/", "CDN.EXAMPLE.COM", "/", "index", ".m3u8", "?", "t=", "a", "/", "b">>,
    <<"https:", "/", "/", "cdn.example.com">>,
    <<"/", "video", "/", "master", ".m3u8">>,
    <<"not", SP, "a", SP, "url">>,
    <<>> }

References ==
  { <<"https:", "/", "/", "cdn2.example.com", "/", "v", ".m3u8">>,
    <<"http:", "/", "/", "CDN.EXAMPLE.COM", "/", "a", "/", "..", "/", "b", SP, "c", ".ts", "?", "t=", "a", "/", "b">>,
    <<"https:", "/", "/">>,
    <<"HTTPS:", "/", "/", "CDN.EXAMPLE.COM", "/", "v", ".m3u8">>,
    <<"720p", "/", "playlist", ".m3u8">>,
    <<"seg", ".ts", "?", "t=", "a", "/", "b">>,
    <<"..", "/", "..", "/", "seg", ".ts">>,
    <<".", "/", "seg", SP, "1", ".ts">>,
    <<"/", "root", "/", "seg", ".ts">>,
    <<"/", "/", "cdn2.example.com", "/", "v", ".m3u8">>,
    <<"/", "/">>,
    <<"?", "t=", "a">>,
    <<>> }

ResolveInit ==
  /\ base \in Bases
  /\ reference \in References
  /\ resolver = "none"
  /\ result = <<>>
  /\ again = <<>>
  /\ ServerIdle
  /\ ParserIdle
  /\ PageIdle /\ WorkerIdle /\ ConcurrentIdle

\* server/server.js resolveUrl applied to the pair
ResolveServer ==
  /\ resolver = "none"
  /\ resolver' = "server"
  /\ result' = <<resolveUrl(base, reference)>>
  /\ UNCHANGED <<base, reference, again, parseVars, serverVars, pageVars, workerVars, concurrentVars>>

\* utils/hlsParser.ts resolveUrl (the same text as clientPlaylistParser.ts) applied to the pair
ResolveClient ==
  /\ resolver = "none"
  /\ resolver' = "client"
  /\ result' = <<resolveUrlClient(base, reference)>>
  /\ UNCHANGED <<base, reference, again, parseVars, serverVars, pageVars, workerVars, concurrentVars>>

\* the same copy applied to what it returned, against the same base
ResolveAgain ==
  /\ resolver # "none"
  /\ again = <<>>
  /\ again' = <<IF resolver = "server" THEN resolveUrl(base, result[1])
                 ELSE resolveUrlClient(base, result[1])>>
  /\ UNCHANGED <<base, reference, resolver, result, parseVars, serverVars, pageVars, workerVars, concurrentVars>>

ResolveNext == ResolveServer \/ ResolveClient \/ ResolveAgain

ResolveSpec == ResolveInit /\ [][ResolveNext]_vars

(***************************************************************************)
(* Inputs of the server: inbound requests and what upstream may answer     *)
(***************************************************************************)
MaxRedirects == 1

UrlParams ==
  { Null,
    <<>>,
    <<"not", SP, "a", SP, "url">>,
    <<"https:", "/", "/", "cdn.example.com", "/", "video", "/", "master", ".m3u8">>,
    <<"https:", "/", "/", "cdn.example.com", "/", "video", "/", "seg", ".ts">>,
    <<"https:", "/", "/", "www.", "netflix.com", "/", "x", ".m3u8">>,
    <<"https:", "/", "/", "NETFLIX.COM", ".evil.org", "/", "x", ".m3u8">> }

MasterBody ==
  << <<"#EXTM3U", NL, "#EXT-X-KEY", ":", "METHOD=", "NONE", ",", "URI=", "\"", "key", ".bin", "\"", NL,
       "#EXT-X-STREAM-INF", ":", "BANDWIDTH=", "2", NL>>,
     <<"720p", "/", "playlist", ".m3u8", NL>> >>

\* a media playlist in two chunks: a key with a relative URI, a reference with a leading
\* space cut by the chunk boundary, a reference and a key URI that name no host, an empty
\* line, an absolute reference
MediaBody ==
  << <<"#EXTM3U", NL, "#EXT-X-KEY", ":", "METHOD=", "AES-128", ",", "URI=", "\"", "key", ".bin", "\"", NL,
       SP, "..", "/", "seg">>,
     <<".ts", NL, "/", "/", NL, NL, "#EXT-X-KEY", ":", "URI=", "\"", "/", "/", "\"", NL,
       "https:", "/", "/", "cdn2.example.com", "/", "v", ".m3u8", NL, "#EXT-X-ENDLIST">> >>

NoHeader == Null

Answer(status, location, ctype, contentRange, acceptRanges, body) ==
  [status |-> status, location |-> location, ctype |-> ctype, contentRange |-> contentRange,
   acceptRanges |-> acceptRanges, contentLength |-> TRUE, body |-> body]

\* the responses upstream may give to a request
UpstreamResponses ==
  << Answer(200, NoHeader, <<"application/vnd.apple.", "mpegurl">>, NoHeader, NoHeader, MasterBody),
     Answer(200, NoHeader, <<"text/html">>, NoHeader, NoHeader, << <<"<html>">> >>),
     Answer(200, NoHeader, <<"video/mp2t">>, NoHeader, <<"bytes">>, << <<"b1">>, <<"b2">> >>),
     Answer(206, NoHeader, NoHeader, <<"bytes 0-1/2">>, <<"bytes">>, << <<"b1">>, <<"b2">> >>),
     Answer(401, NoHeader, <<"video/mp2t">>, NoHeader, NoHeader, << <<"b1">> >>),
     Answer(403, NoHeader, <<"application/vnd.apple.", "mpegurl">>, NoHeader, NoHeader, MasterBody),
     Answer(404, NoHeader, <<"text/html">>, NoHeader, NoHeader, << <<"<html>">> >>),
     Answer(302, <<"moved", "/", "master", ".m3u8">>, NoHeader, NoHeader, NoHeader, <<>>),
     Answer(301, <<"/", "/">>, NoHeader, NoHeader, NoHeader, <<>>),
     Answer(302, NoHeader, <<"text/html">>, NoHeader, NoHeader, << <<"<html>">> >>),
     Answer(302, <<"?", "t=a">>, NoHeader, NoHeader, NoHeader, <<>>),
     Answer(301, <<"https:", "/", "/", "cdn2.example.com", "/", "v", ".m3u8">>, NoHeader, NoHeader,
            NoHeader, <<>>),
     Answer(200, NoHeader, <<"application/x-", "mpegurl">>, NoHeader, NoHeader, MediaBody),
     Answer(302, <<"https:", "/", "/", "www.", "netflix.com", "/", "x", ".m3u8">>, NoHeader, NoHeader,
            NoHeader, <<>>) >>

Profiles == 1..Len(UpstreamResponses)

\* the url parameters of /download-url requests: those above, and urls whose query holds
\* the characters that delimit query parameters
LinkUrls ==
  UrlParams \cup
  { <<"https:", "/", "/", "cdn.example.com", "/", "v", ".m3u8", "?", "token", "=", "a", "&",
      "quality", "=", "b", "#", "c">>,
    <<"https:", "/", "/", "cdn.example.com", "/", "a", "+", "b", "%26", "c", ".m3u8">> }

\* the quality parameters of /download-url requests: absent, empty, a label, a variant url
\* with a query of its own, a text with '+', ' ' and '%'
QualityParams ==
  { Null,
    <<>>,
    <<"720p">>,
    <<"https:", "/", "/", "cdn.example.com", "/", "720p", "/", "v", ".m3u8", "?", "url", "=", "x",
      "&", "t=a", "#", "c">>,
    <<"a", "+", "b", SP, "c", "%", "%26">> }

\* the Range header of an inbound request: absent, without a value, or a byte range
RangeHeaders == {NoHeader, <<>>, <<"bytes=0-1">>}

(***************************************************************************)
(* Helpers of the request handlers                                         *)
(***************************************************************************)
BLOCKED_DOMAINS ==
  {"netflix.com", "disneyplus.com", "hulu.com", "hbomax.com", "max.com", "primevideo.com",
   "amazon.com", "peacocktv.com", "paramountplus.com", "appletv.apple.com"}

\* a plausible slip: the hostname is compared whole instead of searched
isBlockedDomainExact(urlString) ==
  LET u == NewURL(urlString)
  IN  u.ok /\ \E d \in BLOCKED_DOMAINS : ToLowerCase(u.hostname) = <<d>>

isBlockedDomain(urlString) ==
  LET u == NewURL(urlString)
  IN  u.ok /\ \E d \in BLOCKED_DOMAINS : Includes(ToLowerCase(u.hostname), <<d>>)

\* a plausible slip: Range is forwarded whether asked for or not
buildBrowserHeadersAlwaysRange(incomingReq, includeRange) == incomingReq.range

\* buildBrowserHeaders, as far as Range goes: the Range of the outgoing headers, forwarded
\* only when asked for and present (NoHeader: the outgoing request has no Range)
buildBrowserHeaders(incomingReq, includeRange) ==
  IF includeRange /\ incomingReq.range \notin {NoHeader, <<>>}
  THEN incomingReq.range ELSE NoHeader

CorsHeaders ==
  { <<"Access-Control-Allow-Origin", <<"*">>>>,
    <<"Access-Control-Allow-Methods", <<"GET, OPTIONS">>>>,
    <<"Access-Control-Allow-Headers", <<"Content-Type, Range">>>> }

\* res.writeHead: counted; the first call decides what goes on the wire
writeHead(o, statusCode, headers) ==
  [o EXCEPT !.headWrites = @ + 1,
            !.status = IF o.headWrites = 0 THEN statusCode ELSE @,
            !.headers = IF o.headWrites = 0 THEN headers ELSE @]

\* sendJson with an analysis as payload
sendJson(o, statusCode, analysis) ==
  [writeHead(o, statusCode, CorsHeaders \cup {<<"Content-Type", <<"application/json">>>>})
     EXCEPT !.analysis = <<analysis>>, !.ended = TRUE]

\* sendError: sendJson with { error, message } as payload
sendError(o, statusCode, error) ==
  [writeHead(o, statusCode, CorsHeaders \cup {<<"Content-Type", <<"application/json">>>>})
     EXCEPT !.error = error, !.ended = TRUE]

\* a request just handed to http(s).request by fetchWithTimeout
NewHop(urlString, range) ==
  [url |-> urlString, range |-> range, st |-> "waiting", prof |-> 0, delivered |-> 0,
   mode |-> "paused", timedOut |-> FALSE]

\* req.destroy(): tears the socket down unless the exchange is already over
DestroyHop(hs, h) ==
  IF h # 0 /\ hs[h].st \in {"waiting", "responded"}
  THEN [hs EXCEPT ![h].st = "destroyed"]
  ELSE hs

\* Buffer.concat(chunks).toString('utf8')
RECURSIVE Concat(_)
Concat(chunks) == IF Len(chunks) = 0 THEN <<>> ELSE chunks[1] \o Concat(Tail(chunks))

(***************************************************************************)
(* handleProxy's playlist rewriting                                        *)
(***************************************************************************)
UriOpen == <<"URI=", "\"">>

\* trimmed.replace(/URI="([^"]+)"/g, ...): every quoted URI resolved where it can be
RECURSIVE ReplaceUris(_, _, _)
ReplaceUris(s, i, baseUrl) ==
  IF i > Len(s) THEN <<>>
  ELSE LET close == FirstIn(s, i + 2, {"\""})
       IN  IF /\ i + 1 <= Len(s) /\ s[i] = "URI=" /\ s[i + 1] = "\""
              /\ close <= Len(s) /\ close > i + 2
           THEN LET uri == SubSeq(s, i + 2, close - 1)
                    resolved == resolveUrl(baseUrl, uri)
                IN  (IF resolved \notin {Null, <<>>}
                     THEN UriOpen \o resolved \o <<"\"">>
                     ELSE SubSeq(s, i, close))
                    \o ReplaceUris(s, close + 1, baseUrl)
           ELSE <<s[i]>> \o ReplaceUris(s, i + 1, baseUrl)

\* a plausible slip: only the reference lines are rewritten, URI attributes are left alone
RewriteLineSegmentsOnly(line, baseUrl) ==
  LET trimmed == Trim(line)
  IN  IF trimmed = <<>> \/ trimmed[1] \in HashLexemes THEN line
      ELSE LET resolved == resolveUrl(baseUrl, trimmed)
           IN  IF resolved \notin {Null, <<>>} THEN resolved ELSE line

\* a plausible slip: a resolved reference line is pointed back at the proxy endpoint
RewriteLineThroughProxy(line, baseUrl) ==
  LET trimmed == Trim(line)
  IN  IF Includes(trimmed, UriOpen) THEN ReplaceUris(trimmed, 1, baseUrl)
      ELSE IF trimmed = <<>> \/ trimmed[1] \in HashLexemes THEN line
      ELSE LET resolved == resolveUrl(baseUrl, trimmed)
           IN  IF resolved \notin {Null, <<>>}
               THEN <<"/", "proxy", "?", "url=">> \o resolved
               ELSE line

\* the function mapped over the lines of the playlist
RewriteLine(line, baseUrl) ==
  LET trimmed == Trim(line)
  IN  IF Includes(trimmed, UriOpen) THEN ReplaceUris(trimmed, 1, baseUrl)
      ELSE IF trimmed = <<>> \/ trimmed[1] \in HashLexemes THEN line
      ELSE LET resolved == resolveUrl(baseUrl, trimmed)
           IN  IF resolved \notin {Null, <<>>} THEN resolved ELSE line

RewritePlaylist(c, baseUrl) ==
  LET ls == Split(c, NL)
  IN  Join([i \in 1..Len(ls) |-> RewriteLine(ls[i], baseUrl)], NL)

\* response.headers['content-type'] || 'application/octet-stream'
ContentTypeOf(answer) ==
  IF answer.ctype = NoHeader THEN <<"application/octet-stream">> ELSE answer.ctype

\* the test that sends a resource down the buffering branch
IsPlaylist(resourceUrl, contentType) ==
  Includes(resourceUrl, <<".m3u8">>) \/ Includes(contentType, <<"mpegurl">>)

PlaylistHeaders ==
  CorsHeaders \cup
  { <<"Content-Type", <<"application/vnd.apple.", "mpegurl">>>>,
    <<"Access-Control-Expose-Headers", <<"Content-Range, Accept-Ranges">>>>,
    <<"Cache-Control", <<"no-cache">>>> }

\* a plausible slip: every upstream header of interest is forwarded, Content-Length too
StreamHeadersWithLength(answer) ==
  CorsHeaders \cup
  { <<"Content-Type", ContentTypeOf(answer)>>,
    <<"Access-Control-Expose-Headers", <<"Content-Range, Accept-Ranges">>>>,
    <<"Cache-Control", <<"no-cache">>>> }
  \cup (IF answer.contentRange # NoHeader
        THEN {<<"Content-Range", answer.contentRange>>} ELSE {})
  \cup (IF answer.acceptRanges # NoHeader
        THEN {<<"Accept-Ranges", answer.acceptRanges>>} ELSE {})
  \cup (IF answer.contentLength THEN {<<"Content-Length", <<"2">>>>} ELSE {})

\* responseHeaders of the streaming branch: no Content-Length, range headers forwarded
StreamHeaders(answer) ==
  CorsHeaders \cup
  { <<"Content-Type", ContentTypeOf(answer)>>,
    <<"Access-Control-Expose-Headers", <<"Content-Range, Accept-Ranges">>>>,
    <<"Cache-Control", <<"no-cache">>>> }
  \cup (IF answer.contentRange # NoHeader
        THEN {<<"Content-Range", answer.contentRange>>} ELSE {})
  \cup (IF answer.acceptRanges # NoHeader
        THEN {<<"Accept-Ranges", answer.acceptRanges>>} ELSE {})

\* a plausible slip: the upstream status is passed on as it is
StreamStatusPassedOn(statusCode) == statusCode

\* response.statusCode === 206 ? 206 : 200
StreamStatus(statusCode) == IF statusCode = 206 THEN 206 ELSE 200

(***************************************************************************)
(* The handlers, cut at their awaits.  A context is the part of the state  *)
(* a handler step reads and writes.                                        *)
(***************************************************************************)
Ctx == [pc |-> pc, hops |-> hops, out |-> out, upstreamReq |-> upstreamReq,
        closeListener |-> closeListener]

AnswerOf(hop) == UpstreamResponses[hop.prof]

\* what has been read of hop's body so far, as text
BufferedText(hop) == Concat(SubSeq(AnswerOf(hop).body, 1, hop.delivered))

\* a plausible slip: 403 falls through to the generic non-200 branch
AnalyzeStatusBranchNo403(statusCode) ==
  IF statusCode = 401 THEN "denied"
  ELSE IF statusCode # 200 THEN "failed" ELSE "read"

\* handleAnalyze's two tests on response.statusCode
AnalyzeStatusBranch(statusCode) ==
  IF statusCode = 401 \/ statusCode = 403 THEN "denied"
  ELSE IF statusCode # 200 THEN "failed" ELSE "read"

\* handleAnalyze after `await fetchWithTimeout` returned hop h's response
AnalyzeFetched(c, h) ==
  LET statusCode == AnswerOf(c.hops[h]).status
      branch == AnalyzeStatusBranch(statusCode)
  IN  IF branch = "denied"
      THEN [c EXCEPT !.out = sendError(c.out, statusCode, "Access denied"), !.pc = "done"]
      ELSE IF branch = "failed"
      THEN [c EXCEPT !.out = sendError(c.out, 502, "Fetch failed"), !.pc = "done"]
      ELSE [c EXCEPT !.hops[h].mode = "buffer", !.pc = "reading"]

\* a plausible slip: the marker test is skipped
HasMarkerAlways(text) == TRUE

\* content.includes('#EXTM3U')
HasMarker(text) == Includes(text, <<"#EXTM3U">>)

\* handleAnalyze after `await readBody` returned
AnalyzeBodyRead(c, h, m3u8Url) ==
  LET text == BufferedText(c.hops[h])
  IN  IF ~HasMarker(text)
      THEN [c EXCEPT !.out = sendError(c.out, 400, "Invalid playlist"), !.pc = "done"]
      ELSE [c EXCEPT !.out = sendJson(c.out, 200, parseM3u8(text, m3u8Url)), !.pc = "done"]

\* handleAnalyze's catch block
AnalyzeCaught(c, message) ==
  IF message = "Request timeout"
  THEN [c EXCEPT !.out = sendError(c.out, 504, "Request timeout"), !.pc = "done"]
  ELSE [c EXCEPT !.out = sendError(c.out, 500, "Network error"), !.pc = "done"]

\* a plausible slip: only 401 is treated as an authorization failure
ProxyDeniedOnly401(statusCode) == statusCode = 401

\* handleProxy's test on response.statusCode
ProxyDenied(statusCode) == statusCode = 401 \/ statusCode = 403

\* handleProxy after `await fetchWithTimeout` returned hop h's response
ProxyFetched(c, h, resourceUrl) ==
  LET answer == AnswerOf(c.hops[h])
      c1 == [c EXCEPT !.upstreamReq = h]
  IN  IF ProxyDenied(answer.status)
      THEN [c1 EXCEPT !.out = sendError(c.out, answer.status, "Access denied"), !.pc = "done"]
      ELSE IF IsPlaylist(resourceUrl, ContentTypeOf(answer))
      THEN [c1 EXCEPT !.closeListener = TRUE, !.hops[h].mode = "buffer", !.pc = "reading"]
      ELSE [c1 EXCEPT !.closeListener = TRUE, !.hops[h].mode = "pipe", !.pc = "piping",
                      !.out = writeHead(c.out, StreamStatus(answer.status),
                                        StreamHeaders(answer))]

\* handleProxy after `await readBody` returned: rewrite, writeHead(200), end
ProxyBodyRead(c, h, resourceUrl) ==
  [c EXCEPT !.out = [writeHead(c.out, 200, PlaylistHeaders)
                       EXCEPT !.text = RewritePlaylist(BufferedText(c.hops[h]), resourceUrl),
                              !.ended = TRUE],
            !.pc = "done"]

\* handleProxy's catch block
ProxyCaught(c, message) ==
  LET c1 == [c EXCEPT !.hops = DestroyHop(c.hops, c.upstreamReq)]
  IN  IF message = "Request timeout"
      THEN [c1 EXCEPT !.out = sendError(c.out, 504, "Request timeout"), !.pc = "done"]
      ELSE [c1 EXCEPT !.out = sendError(c.out, 500, "Proxy error"), !.pc = "done"]

\* a plausible slip: the 'error' handler of the piped response reports instead of ending
OnResponseErrorSendError(o) == sendError(o, 500, "Proxy error")

\* response.on('error', () => res.end())
OnResponseError(o) == [o EXCEPT !.ended = TRUE]

\* a plausible slip: chunks are collected newest first
PipeChunkReversed(body, chunk) == <<chunk>> \o body

\* response.pipe(res): one chunk from upstream written to the client as it arrives
PipeChunk(body, chunk) == Append(body, chunk)

\* a plausible slip: the Location value is used as it stands
RedirectUrlUnresolved(urlString, location) == location

\* resolveUrl(urlString, res.headers.location) || res.headers.location
RedirectUrl(urlString, location) ==
  LET r == resolveUrl(urlString, location)
  IN  IF r \notin {Null, <<>>} THEN r ELSE location

(***************************************************************************)
(* The server: one inbound request, its outbound requests, its response    *)
(***************************************************************************)
Apply(c) ==
  /\ pc' = c.pc
  /\ hops' = c.hops
  /\ out' = c.out
  /\ upstreamReq' = c.upstreamReq
  /\ closeListener' = c.closeListener

Fetched(c, h) ==
  IF inbound.path = "/analyze" THEN AnalyzeFetched(c, h) ELSE ProxyFetched(c, h, inbound.url)

BodyRead(c, h) ==
  IF inbound.path = "/analyze" THEN AnalyzeBodyRead(c, h, inbound.url)
  ELSE ProxyBodyRead(c, h, inbound.url)

Caught(c, message) ==
  IF inbound.path = "/analyze" THEN AnalyzeCaught(c, message) ELSE ProxyCaught(c, message)

\* reject(err) of fetchWithTimeout's promise: the awaiting handler's catch runs, once
Reject(c, message) ==
  IF promise = "pending"
  THEN /\ promise' = (IF message = "Request timeout" THEN "timeout" ELSE "error")
       /\ Apply(Caught(c, message))
  ELSE /\ promise' = promise
       /\ Apply(c)

\* the checks handleAnalyze makes before it fetches
AnalyzeValidation(m3u8Url) ==
  IF m3u8Url = Null \/ m3u8Url = <<>> THEN "Missing URL"
  ELSE IF ~NewURL(m3u8Url).ok THEN "Invalid URL"
  ELSE IF isBlockedDomain(m3u8Url) THEN "Blocked domain"
  ELSE "ok"

\* a plausible slip: the download-link builder leaves the denylist out
DownloadUrlValidationNoDenylist(m3u8Url) ==
  IF m3u8Url = Null \/ m3u8Url = <<>> THEN "Missing URL"
  ELSE IF ~NewURL(m3u8Url).ok THEN "Invalid URL"
  ELSE "ok"

\* the checks handleDownloadUrl makes before it builds the link
DownloadUrlValidation(m3u8Url) ==
  IF m3u8Url = Null \/ m3u8Url = <<>> THEN "Missing URL"
  ELSE IF ~NewURL(m3u8Url).ok THEN "Invalid URL"
  ELSE IF isBlockedDomain(m3u8Url) THEN "Blocked domain"
  ELSE "ok"

WORKER_BASE_URL == <<"https:", "/", "/", "your-worker.example.com">>

\* the lexemes encodeURIComponent changes, with what it makes of them
Escapes ==
  { <<"/", "%2F">>, <<"?", "%3F">>, <<"&", "%26">>, <<"=", "%3D">>, <<"#", "%23">>,
    <<"+", "%2B">>, <<"%", "%25">>, <<SP, "%20">>, <<":", "%3A">>, <<"\"", "%22">>,
    <<"https:", "https%3A">>, <<"http:", "http%3A">>, <<"t=a", "t%3Da">>,
    <<"%26", "%2526">>, <<"%20", "%2520">> }

\* a plausible slip: the value is put in the query as it is
encodeURIComponentOmitted(str) == str

\* encodeURIComponent: every character outside A-Z a-z 0-9 - _ . ! ~ * ' ( ) is escaped
encodeURIComponent(str) ==
  [i \in 1..Len(str) |->
     IF \E e \in Escapes : e[1] = str[i]
     THEN (CHOOSE e \in Escapes : e[1] = str[i])[2]
     ELSE str[i]]

\* the link handleDownloadUrl builds
DownloadUrl(m3u8Url, quality) ==
  WORKER_BASE_URL \o <<"/", "download", "?", "url", "=">> \o encodeURIComponent(m3u8Url)
    \o (IF quality \notin {Null, <<>>}
        THEN <<"&", "quality", "=">> \o encodeURIComponent(quality)
        ELSE <<>>)

\* the query of the request the browser sends for a link: what follows the first '?', up to
\* a '#'
SearchOf(href) ==
  LET qAt == FirstIn(href, 1, {"?"})
      hAt == FirstIn(href, qAt, {"#"})
  IN  SubSeq(href, qAt + 1, hAt - 1)

\* the decoding URLSearchParams applies to a name or a value: '+' is a space, escapes are
\* undone
Unescape(str) ==
  [i \in 1..Len(str) |->
     IF str[i] = "+" THEN SP
     ELSE IF \E e \in Escapes : e[2] = str[i]
     THEN (CHOOSE e \in Escapes : e[2] = str[i])[1]
     ELSE str[i]]

\* the name=value pairs of a query, decoded
SearchParams(search) ==
  LET pairs == FilterNonEmpty(Split(search, "&"))
  IN  [k \in 1..Len(pairs) |->
         LET eqAt == FirstIn(pairs[k], 1, {"="})
         IN  [name |-> Unescape(SubSeq(pairs[k], 1, eqAt - 1)),
              value |-> Unescape(SubSeq(pairs[k], eqAt + 1, Len(pairs[k])))]]

\* url.searchParams.get(name): the value of the first pair of that name, null without one
SearchParamsGet(search, name) ==
  LET params == SearchParams(search)
      hits == {k \in 1..Len(params) : params[k].name = <<name>>}
  IN  IF hits = {} THEN Null
      ELSE params[CHOOSE k \in hits : \A j \in hits : k <= j].value

Init == ServerIdle /\ ParserIdle /\ ResolverIdle /\ PageIdle /\ WorkerIdle /\ ConcurrentIdle

\* handleRequest routes a GET to handleAnalyze or handleProxy, which runs to its first await
Receive(path, url, range) ==
  /\ pc = "idle"
  /\ inbound' = [path |-> path, url |-> url, range |-> range, quality |-> Null]
  /\ LET verdict == AnalyzeValidation(url)
         c == Ctx
     IN  IF path = "/analyze" /\ verdict # "ok"
         THEN /\ Apply([c EXCEPT !.out = sendError(out, IF verdict = "Blocked domain" THEN 403 ELSE 400,
                                                   verdict),
                                 !.pc = "done"])
              /\ promise' = "none"
         ELSE IF url = Null \/ url = <<>>
         THEN /\ Apply([c EXCEPT !.out = sendError(out, 400, "Missing URL"), !.pc = "done"])
              /\ promise' = "none"
         ELSE IF ~NewURL(url).ok
         THEN /\ Apply(ProxyCaught(c, "Invalid URL"))
              /\ promise' = "error"
         ELSE /\ Apply([c EXCEPT !.hops = <<NewHop(url, buildBrowserHeaders([range |-> range],
                                                                             path = "/proxy"))>>,
                                 !.pc = "fetching"])
              /\ promise' = "pending"
  /\ UNCHANGED <<parseVars, resolveVars, pageVars, workerVars, concurrentVars>>

\* handleRequest routes a GET to handleDownloadUrl, which answers without awaiting anything
ReceiveDownloadUrl(url, quality) ==
  /\ pc = "idle"
  /\ inbound' = [path |-> "/download-url", url |-> url, range |-> NoHeader, quality |-> quality]
  /\ LET verdict == DownloadUrlValidation(url)
     IN  IF verdict # "ok"
         THEN out' = sendError(out, IF verdict = "Blocked domain" THEN 403 ELSE 400, verdict)
         ELSE out' = sendJson(out, 200, [downloadUrl |-> DownloadUrl(url, quality)])
  /\ pc' = "done"
  /\ UNCHANGED <<hops, promise, upstreamReq, closeListener, parseVars, resolveVars, pageVars, workerVars, concurrentVars>>

\* the 'response' callback of hop h: follow a redirect or resolve the promise
UpstreamRespond(h, p) ==
  /\ h \in 1..Len(hops)
  /\ hops[h].st = "waiting"
  /\ LET answer == UpstreamResponses[p]
         hs1 == [hops EXCEPT ![h].st = "responded", ![h].prof = p]
         c == [Ctx EXCEPT !.hops = hs1]
     IN  IF answer.status >= 300 /\ answer.status < 400 /\ answer.location \notin {NoHeader, <<>>}
         THEN /\ Len(hops) <= MaxRedirects
              /\ LET redirectUrl == RedirectUrl(hops[h].url, answer.location)
                 IN  IF NewURL(redirectUrl).ok
                     THEN /\ hops' = Append(hs1, NewHop(redirectUrl, hops[h].range))
                          /\ UNCHANGED <<pc, out, upstreamReq, closeListener, promise>>
                     ELSE Reject(c, "Invalid URL")
         ELSE IF promise = "pending"
         THEN /\ promise' = "fulfilled"
              /\ Apply(Fetched(c, h))
         ELSE /\ promise' = promise
              /\ Apply(c)
  /\ UNCHANGED <<inbound, parseVars, resolveVars, pageVars, workerVars, concurrentVars>>

\* a 'data' event of hop h's response, consumed by readBody or by the pipe
UpstreamData(h) ==
  /\ h \in 1..Len(hops)
  /\ hops[h].st = "responded"
  /\ hops[h].mode \in {"buffer", "pipe"}
  /\ hops[h].delivered < Len(AnswerOf(hops[h]).body)
  /\ LET chunk == AnswerOf(hops[h]).body[hops[h].delivered + 1]
         hs1 == [hops EXCEPT ![h].delivered = @ + 1]
     IN  IF hops[h].mode = "buffer"
         THEN hops' = hs1 /\ out' = out
         ELSE IF out.closed
         THEN hops' = [hs1 EXCEPT ![h].mode = "stalled"] /\ out' = out
         ELSE hops' = hs1 /\ out' = [out EXCEPT !.body = PipeChunk(@, chunk)]
  /\ UNCHANGED <<inbound, pc, promise, upstreamReq, closeListener, parseVars, resolveVars, pageVars, workerVars, concurrentVars>>

\* the 'end' event of hop h's response
UpstreamEnd(h) ==
  /\ h \in 1..Len(hops)
  /\ hops[h].st = "responded"
  /\ hops[h].mode \in {"buffer", "pipe"}
  /\ hops[h].delivered = Len(AnswerOf(hops[h]).body)
  /\ LET c == [Ctx EXCEPT !.hops[h].st = "complete"]
     IN  IF hops[h].mode = "buffer"
         THEN Apply(BodyRead(c, h))
         ELSE Apply([c EXCEPT !.out.ended = TRUE, !.pc = "done"])
  /\ UNCHANGED <<inbound, promise, parseVars, resolveVars, pageVars, workerVars, concurrentVars>>

\* what the events of a torn-down response of hop h lead to
ResponseAborted(c, h) ==
  IF hops[h].st = "responded" /\ hops[h].mode = "buffer"
  THEN Caught(c, "aborted")
  ELSE IF hops[h].st = "responded" /\ hops[h].mode = "pipe"
  THEN [c EXCEPT !.out = OnResponseError(c.out), !.pc = "done"]
  ELSE c

\* the connection of hop h fails: 'error' on the request, or on its response
UpstreamFail(h) ==
  /\ h \in 1..Len(hops)
  /\ hops[h].st \in {"waiting", "responded"}
  /\ LET c == [Ctx EXCEPT !.hops[h].st = "failed"]
     IN  IF hops[h].st = "waiting"
         THEN Reject(c, "socket hang up")
         ELSE /\ promise' = promise
              /\ Apply(ResponseAborted(c, h))
  /\ UNCHANGED <<inbound, parseVars, resolveVars, pageVars, workerVars, concurrentVars>>

\* the socket of hop h stayed idle for REQUEST_TIMEOUT: req.destroy(), then reject
Timeout(h) ==
  /\ h \in 1..Len(hops)
  /\ hops[h].st \in {"waiting", "responded"}
  /\ LET c == [Ctx EXCEPT !.hops = [DestroyHop(hops, h) EXCEPT ![h].timedOut = (out.headWrites = 0)]]
     IN  IF promise = "pending"
         THEN Reject(c, "Request timeout")
         ELSE /\ promise' = promise
              /\ Apply(ResponseAborted(c, h))
  /\ UNCHANGED <<inbound, parseVars, resolveVars, pageVars, workerVars, concurrentVars>>

\* the client-facing connection closes: 'close' on res, heard only by a registered listener
ClientClose ==
  /\ inbound.path # "none"
  /\ ~out.closed
  /\ LET c == [Ctx EXCEPT !.out.closed = TRUE]
     IN  IF closeListener /\ upstreamReq # 0
         THEN Apply(ResponseAborted([c EXCEPT !.hops = DestroyHop(hops, upstreamReq)], upstreamReq))
         ELSE Apply(c)
  /\ UNCHANGED <<inbound, promise, parseVars, resolveVars, pageVars, workerVars, concurrentVars>>

Next ==
  \/ \E path \in {"/analyze", "/proxy"}, url \in UrlParams, range \in RangeHeaders :
       Receive(path, url, range)
  \/ \E url \in LinkUrls, quality \in QualityParams : ReceiveDownloadUrl(url, quality)
  \/ \E h \in 1..(MaxRedirects + 1), p \in Profiles : UpstreamRespond(h, p)
  \/ \E h \in 1..(MaxRedirects + 1) : UpstreamData(h)
  \/ \E h \in 1..(MaxRedirects + 1) : UpstreamEnd(h)
  \/ \E h \in 1..(MaxRedirects + 1) : UpstreamFail(h)
  \/ \E h \in 1..(MaxRedirects + 1) : Timeout(h)
  \/ ClientClose

Spec == Init /\ [][Next]_vars

(***************************************************************************)
(* The Index page with its two download sections                           *)
(***************************************************************************)
\* the analyses the page may be given, by the server or by the browser-side parser
Analyses(clientOnly) ==
  {[isLive |-> l, isEncrypted |-> e, clientOnly |-> clientOnly] : l, e \in BOOLEAN}

\* const useClientDownload = isClientOnly || analysis?.clientOnly
useClientDownload == page.isClientOnly \/ (page.analysis # <<>> /\ page.analysis[1].clientOnly)

\* const isDownloadDisabled = !analysis || analysis.isLive || analysis.isEncrypted
isDownloadDisabled ==
  page.analysis = <<>> \/ page.analysis[1].isLive \/ page.analysis[1].isEncrypted

\* a download that was started, with the analysis shown when it was
Started(kind) ==
  [kind |-> kind, isLive |-> page.analysis[1].isLive, isEncrypted |-> page.analysis[1].isEncrypted]

PageInit ==
  /\ PageIdle
  /\ ServerIdle /\ ParserIdle /\ ResolverIdle /\ WorkerIdle /\ ConcurrentIdle

\* handleAnalyze up to `await analyzeStream(url)`; the sections of the last analysis unmount
SubmitUrl ==
  /\ ~page.isLoading
  /\ page' = [page EXCEPT !.isLoading = TRUE, !.error = FALSE, !.analysis = <<>>,
                          !.isClientOnly = FALSE, !.pending = "server",
                          !.preparing = FALSE, !.phase = "idle"]
  /\ UNCHANGED <<downloader, parseVars, serverVars, resolveVars, workerVars, concurrentVars>>

\* analyzeStream returned an analysis: setAnalysis(data), setIsLoading(false)
ServerAnalysis(a) ==
  /\ page.pending = "server"
  /\ page' = [page EXCEPT !.analysis = <<a>>, !.isLoading = FALSE, !.pending = "none"]
  /\ UNCHANGED <<downloader, parseVars, serverVars, resolveVars, workerVars, concurrentVars>>

\* analyzeStream returned { clientOnly, directUrl }: setIsClientOnly(true), then
\* `await fetchAndParsePlaylist(data.directUrl)`
ServerClientOnly ==
  /\ page.pending = "server"
  /\ page' = [page EXCEPT !.isClientOnly = TRUE, !.pending = "browser"]
  /\ UNCHANGED <<downloader, parseVars, serverVars, resolveVars, workerVars, concurrentVars>>

\* fetchAndParsePlaylist returned the browser-side analysis, marked clientOnly
BrowserAnalysis(a) ==
  /\ page.pending = "browser"
  /\ page' = [page EXCEPT !.analysis = <<a>>, !.isLoading = FALSE, !.pending = "none"]
  /\ UNCHANGED <<downloader, parseVars, serverVars, resolveVars, workerVars, concurrentVars>>

\* analyzeStream or fetchAndParsePlaylist failed: setError(...), setIsLoading(false)
AnalyzeFailed ==
  /\ page.pending \in {"server", "browser"}
  /\ page' = [page EXCEPT !.error = TRUE, !.isLoading = FALSE, !.pending = "none"]
  /\ UNCHANGED <<downloader, parseVars, serverVars, resolveVars, workerVars, concurrentVars>>

\* a click on 'Download MP4': the button of DownloadSection, disabled={isDisabled || isLoading}
ClickDownloadMp4 ==
  /\ page.analysis # <<>>
  /\ ~useClientDownload
  /\ ~(isDownloadDisabled \/ page.preparing)
  /\ page' = [page EXCEPT !.preparing = TRUE, !.started = @ \cup {Started("mp4")}]
  /\ UNCHANGED <<downloader, parseVars, serverVars, resolveVars, workerVars, concurrentVars>>

\* getDownloadUrl returned: the browser is sent to the link or an error is shown
DownloadUrlReturned ==
  /\ page.preparing
  /\ page' = [page EXCEPT !.preparing = FALSE]
  /\ UNCHANGED <<downloader, parseVars, serverVars, resolveVars, workerVars, concurrentVars>>

\* a click on 'Download WebM': the button of ClientDownloadSection, shown unless the phase is
\* sessionProtected or a download is running, disabled={progress.phase === 'complete'}
ClickDownloadWebM ==
  /\ page.analysis # <<>>
  /\ useClientDownload
  /\ page.phase \in {"idle", "error"}
  /\ page' = [page EXCEPT !.phase = "loading", !.started = @ \cup {Started("webm")}]
  /\ UNCHANGED <<downloader, parseVars, serverVars, resolveVars, workerVars, concurrentVars>>

\* the browser-side download ends, or is cancelled
ClientDownloadSettles(phase) ==
  /\ page.phase = "loading"
  /\ page' = [page EXCEPT !.phase = phase]
  /\ UNCHANGED <<downloader, parseVars, serverVars, resolveVars, workerVars, concurrentVars>>

PageNext ==
  \/ SubmitUrl
  \/ \E a \in Analyses(FALSE) \cup Analyses(TRUE) : ServerAnalysis(a)
  \/ ServerClientOnly
  \/ \E a \in Analyses(TRUE) : BrowserAnalysis(a)
  \/ AnalyzeFailed
  \/ ClickDownloadMp4
  \/ DownloadUrlReturned
  \/ ClickDownloadWebM
  \/ \E phase \in {"complete", "error", "sessionProtected", "idle"} : ClientDownloadSettles(phase)

PageSpec == PageInit /\ [][PageNext]_vars

(***************************************************************************)
(* The iframe-based client downloader (useClientDownloader)                *)
(***************************************************************************)
MaxStarts == 2

\* isDownloading: the phase is none of idle, complete, error, sessionProtected
isDownloading ==
  downloader.phase \notin {"idle", "complete", "error", "sessionProtected"}

\* cleanup(): the message listener is removed, the iframe is stopped and removed
cleanup(d) == [d EXCEPT !.listener = FALSE, !.iframe = FALSE]

\* what the messages of the iframe player make of the hook's state
handleMessage(d, type) ==
  IF type = "manifest-loaded" THEN [d EXCEPT !.phase = "playing"]
  ELSE IF type = "recording-started" THEN [d EXCEPT !.phase = "recording"]
  ELSE IF type = "ended-nothing-recorded"
  THEN [d EXCEPT !.phase = "error", !.error = "No data recorded"]
  ELSE IF type = "ended" THEN [cleanup(d) EXCEPT !.phase = "complete"]
  ELSE IF type = "error-session-protected"
  THEN [cleanup(d) EXCEPT !.phase = "sessionProtected", !.error = "session"]
  ELSE IF type = "error-fatal"
  THEN [cleanup(d) EXCEPT !.phase = "error", !.error = "Playback failed"]
  ELSE [d EXCEPT !.phase = "error", !.error = "Playback failed"]

MessageTypes ==
  {"manifest-loaded", "recording-started", "ended-nothing-recorded", "ended",
   "error-session-protected", "error-fatal", "error"}

\* the callback of setTimeout(..., 30000): `progress` is the value the render that created
\* startDownload saw, `prev` is the state when the timer fires
LoadTimeoutCallback(d, seen) ==
  IF d.cancelled THEN d
  ELSE IF seen = "loading" /\ d.phase = "loading"
  THEN [cleanup(d) EXCEPT !.phase = "error", !.error = "Stream load timeout"]
  ELSE d

DownloaderInit ==
  /\ PageIdle
  /\ ServerIdle /\ ParserIdle /\ ResolverIdle /\ WorkerIdle /\ ConcurrentIdle

\* startDownload, called from the click on the button, which is rendered when no download
\* is running and the phase is neither complete nor sessionProtected
startDownload ==
  /\ ~isDownloading
  /\ downloader.phase \notin {"complete", "sessionProtected"}
  /\ Len(downloader.timers) < MaxStarts
  /\ downloader' = [downloader EXCEPT !.cancelled = FALSE, !.phase = "loading", !.error = "",
                                      !.iframe = TRUE, !.listener = TRUE,
                                      !.timers = Append(@, [seen |-> downloader.phase,
                                                            fired |-> FALSE])]
  /\ UNCHANGED <<page, parseVars, serverVars, resolveVars, workerVars, concurrentVars>>

\* a message of the iframe player reaches the registered listener
IframeMessage(type) ==
  /\ downloader.listener /\ downloader.iframe
  /\ ~downloader.cancelled
  /\ downloader' = handleMessage(downloader, type)
  /\ UNCHANGED <<page, parseVars, serverVars, resolveVars, workerVars, concurrentVars>>

\* cancelDownload, called from the Cancel button, which is rendered while isDownloading
cancelDownload ==
  /\ isDownloading
  /\ downloader' = [cleanup(downloader) EXCEPT !.cancelled = TRUE, !.phase = "idle", !.error = ""]
  /\ UNCHANGED <<page, parseVars, serverVars, resolveVars, workerVars, concurrentVars>>

\* the load timer of the t-th startDownload fires, 30 seconds after it was set
LoadTimeout(t) ==
  /\ t \in 1..Len(downloader.timers)
  /\ ~downloader.timers[t].fired
  /\ downloader' = [LoadTimeoutCallback(downloader, downloader.timers[t].seen)
                      EXCEPT !.timers[t].fired = TRUE]
  /\ UNCHANGED <<page, parseVars, serverVars, resolveVars, workerVars, concurrentVars>>

DownloaderNext ==
  \/ startDownload
  \/ \E type \in MessageTypes : IframeMessage(type)
  \/ cancelDownload
  \/ \E t \in 1..MaxStarts : LoadTimeout(t)

DownloaderSpec == DownloaderInit /\ [][DownloaderNext]_vars

(***************************************************************************)
(* The worker: /download requests, their ffmpeg processes, shutdown        *)
(***************************************************************************)
MaxSignals == 2

\* the url and quality parameters of /download requests
WorkerParams ==
  { Null,
    <<"not", SP, "a", SP, "url">>,
    <<"https:", "/", "/", "cdn.example.com", "/", "video", "/", "master", ".m3u8">>,
    <<"https:", "/", "/", "www.", "netflix.com", "/", "x", ".m3u8">> }

\* the worker's isValidUrl: parses, and the protocol is http: or https:
isValidUrl(urlString) ==
  LET u == NewURL(urlString)
  IN  u.ok /\ u.protocol \in {"http:", "https:"}

\* the checks handleDownload makes on streamUrl = qualityUrl || m3u8Url
DownloadValidation(m3u8Url, qualityUrl) ==
  LET streamUrl == IF qualityUrl \notin {Null, <<>>} THEN qualityUrl ELSE m3u8Url
  IN  IF streamUrl \in {Null, <<>>} THEN "Missing URL"
      ELSE IF ~isValidUrl(streamUrl) THEN "Invalid URL"
      ELSE IF isBlockedDomain(streamUrl) THEN "Blocked domain"
      ELSE "ok"

\* the worker's sendError: nothing once the headers have been sent
sendErrorUnlessSent(rec, statusCode, error) ==
  IF rec.status # 0 THEN rec
  ELSE [rec EXCEPT !.status = statusCode, !.error = error, !.ended = TRUE]

\* ffmpeg.kill('SIGKILL'): the signal goes out, and killed is set, while the child lives
Kill(rec) ==
  IF rec.ffmpeg \in {"spawning", "running"} THEN [rec EXCEPT !.killed = TRUE] ELSE rec

\* a plausible slip: the listener only notes that the client is gone
KillUnlessKilledOmitted(rec) == rec

\* if (!proc.killed) proc.kill('SIGKILL')
KillUnlessKilled(rec) == IF rec.killed THEN rec ELSE Kill(rec)

\* if (!res.writableEnded) res.end()
EndResponse(rec) == [rec EXCEPT !.ended = TRUE]

WorkerInit ==
  /\ WorkerIdle
  /\ ServerIdle /\ ParserIdle /\ ResolverIdle /\ PageIdle /\ ConcurrentIdle

\* handleDownload, from the request to the registration of its listeners
WorkerReceive(d, m3u8Url, qualityUrl) ==
  /\ downloads[d].st = "none"
  /\ signals = <<>>
  /\ LET verdict == DownloadValidation(m3u8Url, qualityUrl)
     IN  IF verdict # "ok"
         THEN downloads' =
                [downloads EXCEPT ![d] = [sendErrorUnlessSent(@, IF verdict = "Blocked domain"
                                                                  THEN 403 ELSE 400, verdict)
                                            EXCEPT !.st = "refused"]]
         ELSE downloads' =
                [downloads EXCEPT ![d] = [@ EXCEPT !.st = "serving", !.status = 200,
                                                   !.ffmpeg = "spawning"]]
  /\ UNCHANGED <<activeProcesses, signals>>
  /\ UNCHANGED <<parseVars, serverVars, resolveVars, pageVars, concurrentVars>>

\* the child process of download d has come up
FfmpegSpawned(d) ==
  /\ downloads[d].ffmpeg = "spawning"
  /\ ~downloads[d].killed
  /\ downloads' = [downloads EXCEPT ![d].ffmpeg = "running"]
  /\ UNCHANGED <<activeProcesses, signals>>
  /\ UNCHANGED <<parseVars, serverVars, resolveVars, pageVars, concurrentVars>>

\* ffmpeg.on('error'): the child could not be spawned
FfmpegSpawnError(d) ==
  /\ downloads[d].ffmpeg = "spawning"
  /\ ~downloads[d].killed
  /\ LET rec == [downloads[d] EXCEPT !.ffmpeg = "failed", !.hasError = TRUE]
         reported == IF ~rec.hasStarted THEN sendErrorUnlessSent(rec, 500, "FFmpeg not found")
                     ELSE rec
     IN  downloads' = [downloads EXCEPT ![d] = [EndResponse(reported) EXCEPT !.st = "done"]]
  /\ UNCHANGED <<activeProcesses, signals>>
  /\ UNCHANGED <<parseVars, serverVars, resolveVars, pageVars, concurrentVars>>

\* ffmpeg.stdout.on('data'): the start timer is cleared, the chunk is written
FfmpegData(d) ==
  /\ downloads[d].ffmpeg = "running"
  /\ downloads' = [downloads EXCEPT ![d].hasStarted = TRUE]
  /\ UNCHANGED <<activeProcesses, signals>>
  /\ UNCHANGED <<parseVars, serverVars, resolveVars, pageVars, concurrentVars>>

\* ffmpeg.on('close'): the child is gone, by itself (code "0" or "1") or by a signal ("null")
FfmpegClose(d, code) ==
  /\ downloads[d].ffmpeg \in {"spawning", "running"}
  /\ downloads[d].killed <=> code = "null"
  /\ code # "null" => downloads[d].ffmpeg = "running"
  /\ LET rec == [downloads[d] EXCEPT !.ffmpeg = "exited"]
         reported == IF code # "0" /\ ~rec.hasError /\ ~rec.hasStarted
                     THEN sendErrorUnlessSent(rec, 500, "FFmpeg error")
                     ELSE rec
     IN  downloads' = [downloads EXCEPT ![d] = [EndResponse(reported) EXCEPT !.st = "done"]]
  /\ UNCHANGED <<activeProcesses, signals>>
  /\ UNCHANGED <<parseVars, serverVars, resolveVars, pageVars, concurrentVars>>

\* the start timer fires: no output after REQUEST_TIMEOUT
StartTimeout(d) ==
  /\ downloads[d].ffmpeg \in {"spawning", "running"}
  /\ ~downloads[d].hasStarted /\ ~downloads[d].hasError
  /\ downloads' = [downloads EXCEPT ![d] = EndResponse(Kill([@ EXCEPT !.hasError = TRUE]))]
  /\ UNCHANGED <<activeProcesses, signals>>
  /\ UNCHANGED <<parseVars, serverVars, resolveVars, pageVars, concurrentVars>>

\* res.on('close') / req.on('aborted'): the client of download d is gone
WorkerClientClose(d) ==
  /\ downloads[d].st \in {"serving", "done"}
  /\ ~downloads[d].closed
  /\ downloads' = [downloads EXCEPT ![d] = KillUnlessKilled([@ EXCEPT !.closed = TRUE])]
  /\ UNCHANGED <<activeProcesses, signals>>
  /\ UNCHANGED <<parseVars, serverVars, resolveVars, pageVars, concurrentVars>>

\* process.on('SIGTERM'): every process of the registry is killed, the server is closed
OnSigterm(signal) ==
  /\ Len(signals) < MaxSignals
  /\ signals' = Append(signals, signal)
  /\ downloads' = [d \in 1..MaxDownloads |->
                     IF d \in activeProcesses THEN KillUnlessKilled(downloads[d])
                     ELSE downloads[d]]
  /\ UNCHANGED activeProcesses

\* SIGTERM delivered to the worker process
Sigterm ==
  /\ OnSigterm("SIGTERM")
  /\ UNCHANGED <<parseVars, serverVars, resolveVars, pageVars, concurrentVars>>

\* process.on('SIGINT'): process.emit('SIGTERM')
Sigint ==
  /\ OnSigterm("SIGINT")
  /\ UNCHANGED <<parseVars, serverVars, resolveVars, pageVars, concurrentVars>>

WorkerNext ==
  \/ \E d \in 1..MaxDownloads, m3u8Url \in WorkerParams, qualityUrl \in WorkerParams :
       WorkerReceive(d, m3u8Url, qualityUrl)
  \/ \E d \in 1..MaxDownloads : FfmpegSpawned(d)
  \/ \E d \in 1..MaxDownloads : FfmpegSpawnError(d)
  \/ \E d \in 1..MaxDownloads : FfmpegData(d)
  \/ \E d \in 1..MaxDownloads, code \in {"0", "1", "null"} : FfmpegClose(d, code)
  \/ \E d \in 1..MaxDownloads : StartTimeout(d)
  \/ \E d \in 1..MaxDownloads : WorkerClientClose(d)
  \/ Sigterm
  \/ Sigint

WorkerSpec == WorkerInit /\ [][WorkerNext]_vars

\* the worker with the operating system's part: a child that was sent SIGKILL terminates,
\* and its 'close' event reaches the worker
WorkerLiveSpec ==
  WorkerSpec /\ \A d \in 1..MaxDownloads : WF_vars(FfmpegClose(d, "null"))

(***************************************************************************)
(* The server with several inbound requests in flight                      *)
(***************************************************************************)
\* the url parameters and the upstream answers of the requests in flight
ConcurrentUrls ==
  { <<"https:", "/", "/", "cdn.example.com", "/", "video", "/", "master", ".m3u8">>,
    <<"https:", "/", "/", "www.", "netflix.com", "/", "x", ".m3u8">> }

ConcurrentProfiles == {1, 4, 5}

\* buildBrowserHeaders: a copy of the defaults, overlaid with the forwarded headers
buildBrowserHeadersFrom(defaultHeaders, incomingReq, includeRange) ==
  LET forwarded == buildBrowserHeaders(incomingReq, includeRange)
  IN  [Range |-> IF forwarded # NoHeader THEN forwarded ELSE defaultHeaders.Range]

\* a plausible slip: headers is the defaults object itself, not a copy of it
DefaultsAfterBuildAliased(defaultHeaders, headers) == headers

\* DEFAULT_BROWSER_HEADERS after `const headers = { ...DEFAULT_BROWSER_HEADERS }` and the
\* assignments to headers: untouched
DefaultsAfterBuild(defaultHeaders, headers) == defaultHeaders

\* the context of a handler whose fetch returned answer p in full
FetchedCtx(url, range, p) ==
  [pc |-> "fetching",
   hops |-> << [NewHop(url, range) EXCEPT !.st = "responded", !.prof = p,
                                          !.delivered = Len(UpstreamResponses[p].body)] >>,
   out |-> IdleOut, upstreamReq |-> 0, closeListener |-> FALSE]

\* what the handler of a request answers once upstream has answered p in full
HandlerResponse(path, url, range, p) ==
  LET c0 == FetchedCtx(url, range, p)
      c1 == IF path = "/analyze" THEN AnalyzeFetched(c0, 1) ELSE ProxyFetched(c0, 1, url)
      c2 == [c1 EXCEPT !.hops[1].st = "complete"]
  IN  IF c1.pc = "reading"
      THEN (IF path = "/analyze" THEN AnalyzeBodyRead(c2, 1, url) ELSE ProxyBodyRead(c2, 1, url)).out
      ELSE IF c1.pc = "piping"
      THEN [c1.out EXCEPT !.body = UpstreamResponses[p].body, !.ended = TRUE]
      ELSE c1.out

\* what the handler of a request answers before it fetches anything, <<>> when it fetches
EarlyResponse(path, url, quality) ==
  IF path = "/download-url"
  THEN LET verdict == DownloadUrlValidation(url)
       IN  IF verdict # "ok"
           THEN <<sendError(IdleOut, IF verdict = "Blocked domain" THEN 403 ELSE 400, verdict)>>
           ELSE <<sendJson(IdleOut, 200, [downloadUrl |-> DownloadUrl(url, quality)])>>
  ELSE IF path = "/analyze" /\ AnalyzeValidation(url) # "ok"
  THEN LET verdict == AnalyzeValidation(url)
       IN  <<sendError(IdleOut, IF verdict = "Blocked domain" THEN 403 ELSE 400, verdict)>>
  ELSE IF url = Null \/ url = <<>> THEN <<sendError(IdleOut, 400, "Missing URL")>>
  ELSE IF ~NewURL(url).ok THEN <<sendError(IdleOut, 500, "Proxy error")>>
  ELSE <<>>

ConcurrentInit ==
  /\ ConcurrentIdle
  /\ ServerIdle /\ ParserIdle /\ ResolverIdle /\ PageIdle /\ WorkerIdle

\* request i arrives and its handler runs to its first await, or to its end
Arrive(i, path, url, range, quality) ==
  /\ requests[i].st = "none"
  /\ LET early == EarlyResponse(path, url, quality)
         headers == buildBrowserHeadersFrom(defaults, [range |-> range], path = "/proxy")
         others == {j \in 1..MaxRequests : j # i /\ requests[j].st = "fetching"}
         mine == [requests[i] EXCEPT !.path = path, !.url = url, !.range = range,
                                     !.quality = quality, !.overlapped = others # {}]
     IN  IF early # <<>>
         THEN /\ requests' = [requests EXCEPT ![i] = [mine EXCEPT !.st = "done", !.response = early]]
              /\ UNCHANGED defaults
         ELSE /\ requests' = [j \in 1..MaxRequests |->
                                IF j = i THEN [mine EXCEPT !.st = "fetching", !.headers = headers]
                                ELSE IF j \in others THEN [requests[j] EXCEPT !.overlapped = TRUE]
                                ELSE requests[j]]
              /\ defaults' = DefaultsAfterBuild(defaults, headers)
  /\ UNCHANGED <<parseVars, serverVars, resolveVars, pageVars, workerVars>>

\* upstream answers request i with profile p, and its handler runs to its end
Answered(i, p) ==
  /\ requests[i].st = "fetching"
  /\ requests' = [requests EXCEPT ![i].st = "done", ![i].prof = p,
                     ![i].response = <<HandlerResponse(requests[i].path, requests[i].url,
                                                       requests[i].headers.Range, p)>>]
  /\ UNCHANGED defaults
  /\ UNCHANGED <<parseVars, serverVars, resolveVars, pageVars, workerVars>>

ConcurrentNext ==
  \/ \E i \in 1..MaxRequests, path \in {"/analyze", "/proxy"}, url \in ConcurrentUrls,
        range \in {NoHeader, <<"bytes=0-1">>} : Arrive(i, path, url, range, Null)
  \/ \E i \in 1..MaxRequests, url \in ConcurrentUrls, quality \in {Null, <<"720p">>} :
       Arrive(i, "/download-url", url, NoHeader, quality)
  \/ \E i \in 1..MaxRequests, p \in ConcurrentProfiles : Answered(i, p)

ConcurrentSpec == ConcurrentInit /\ [][ConcurrentNext]_vars

(***************************************************************************)
(* Properties                                                              *)
(***************************************************************************)
LiveHop(hop) == hop.st \in {"waiting", "responded"}

\* the hop whose response fetchWithTimeout's promise was fulfilled with
ReturnedHop == hops[Len(hops)]

\* C1: for a /proxy request whose client connection has closed while the call was still
\* in progress, no outbound request of that call is left running: each one has been
\* destroyed (or had already ended).
C1_ClientCloseAbortsUpstream ==
  (inbound.path = "/proxy" /\ out.closed /\ ~out.ended)
    => \A h \in 1..Len(hops) : ~LiveHop(hops[h])

\* C2: for a /proxy request the status line and headers are written at most once, and an
\* error payload is on the wire only if it was that single write.
C2_HeadersWrittenOnce ==
  inbound.path = "/proxy"
    => /\ out.headWrites <= 1
       /\ out.error # "" => <<"Content-Type", <<"application/json">>>> \in out.headers

\* C2 witness: a piped response whose upstream broke after the headers had been sent
C2_Witness ==
  /\ inbound.path = "/proxy"
  /\ out.headWrites = 1 /\ out.status = 200 /\ out.ended
  /\ \E h \in 1..Len(hops) : hops[h].mode = "pipe" /\ hops[h].st \in {"failed", "destroyed"}

IsPrefix(a, b) == Len(a) <= Len(b) /\ SubSeq(b, 1, Len(a)) = a

C4_TimeoutAnswered504 ==
  (out.ended /\ \E h \in 1..Len(hops) : hops[h].timedOut)
    => out.status = 504 /\ out.error = "Request timeout"

\* C5: /analyze starts no outbound request for a missing or malformed url (answered 400)
\* nor for a url whose hostname contains a denylisted domain (answered 403).
C5_NoFetchBeforeValidation ==
  inbound.path = "/analyze" =>
    LET u == inbound.url
        wellFormed == u # Null /\ u # <<>> /\ NewURL(u).ok
        denylisted == wellFormed /\ \E i \in 1..Len(NewURL(u).hostname) :
                                       NewURL(u).hostname[i] \in BLOCKED_DOMAINS
    IN  /\ ~wellFormed => hops = <<>> /\ out.status = 400
                          /\ out.error \in {"Missing URL", "Invalid URL"}
        /\ denylisted => hops = <<>> /\ out.status = 403 /\ out.error = "Blocked domain"
        /\ hops # <<>> => wellFormed /\ ~denylisted

\* C5 witness: a hostname that merely contains a denylisted domain was refused
C5_Witness ==
  /\ inbound.path = "/analyze"
  /\ inbound.url = <<"https:", "/", "/", "www.", "netflix.com", "/", "x", ".m3u8">>
  /\ out.status = 403 /\ out.ended /\ hops = <<>>

\* C6: for /analyze the status of the response the fetch returned decides: 401/403 gives
\* 'Access denied', any other status but 200 gives 502 'Fetch failed', and the body is read
\* only after a 200.
C6_AnalyzeStatusPriority ==
  (inbound.path = "/analyze" /\ promise = "fulfilled") =>
    LET statusCode == AnswerOf(ReturnedHop).status
    IN  /\ statusCode \in {401, 403} =>
             out.error = "Access denied" /\ out.status = statusCode /\ ReturnedHop.mode = "paused"
        /\ statusCode \notin {200, 401, 403} =>
             out.error = "Fetch failed" /\ out.status = 502 /\ ReturnedHop.mode = "paused"
        /\ statusCode = 200 =>
             ReturnedHop.mode = "buffer" /\ out.error \notin {"Access denied", "Fetch failed"}

\* C6 witness: an upstream 403 answered as 'Access denied'
C6_Witness ==
  /\ inbound.path = "/analyze" /\ promise = "fulfilled"
  /\ AnswerOf(ReturnedHop).status = 403
  /\ out.error = "Access denied"

\* C7: for /proxy an upstream 401 or 403 is answered with the 'Access denied' payload and
\* nothing of the upstream body is read, streamed or rewritten.
C7_ProxyDeniedNotStreamed ==
  (inbound.path = "/proxy" /\ promise = "fulfilled"
   /\ AnswerOf(ReturnedHop).status \in {401, 403})
    => /\ out.error = "Access denied" /\ out.status = AnswerOf(ReturnedHop).status
       /\ out.body = <<>> /\ out.text = <<>>
       /\ ReturnedHop.delivered = 0 /\ ReturnedHop.mode = "paused"

\* C7 witness: an upstream 403 carrying a playlist, requested under a playlist url
C7_Witness ==
  /\ inbound.path = "/proxy" /\ promise = "fulfilled"
  /\ Includes(inbound.url, <<".m3u8">>)
  /\ AnswerOf(ReturnedHop).status = 403
  /\ Includes(AnswerOf(ReturnedHop).ctype, <<"mpegurl">>)
  /\ out.ended

\* C8: when the body read for /analyze lacks #EXTM3U the request ends with 'Invalid
\* playlist' and no analysis; an analysis is only ever produced from a body with the marker.
C8_MarkerRequired ==
  inbound.path = "/analyze" =>
    /\ (promise = "fulfilled" /\ ReturnedHop.st = "complete"
        /\ ~(\E i \in 1..Len(BufferedText(ReturnedHop)) : BufferedText(ReturnedHop)[i] = "#EXTM3U"))
         => out.error = "Invalid playlist" /\ out.status = 400 /\ out.analysis = <<>>
    /\ out.analysis # <<>> =>
         /\ ReturnedHop.st = "complete"
         /\ \E i \in 1..Len(BufferedText(ReturnedHop)) : BufferedText(ReturnedHop)[i] = "#EXTM3U"
         /\ out.analysis = <<parseM3u8(BufferedText(ReturnedHop), inbound.url)>>

\* C8 witness: a 200 body without the marker was read to its end and refused
C8_Witness ==
  /\ inbound.path = "/analyze" /\ promise = "fulfilled"
  /\ ReturnedHop.st = "complete"
  /\ BufferedText(ReturnedHop) = <<"<html>">>
  /\ out.error = "Invalid playlist"

\* C9: for every content that carries the marker and every valid source URL the parser
\* returns at least one quality, and exactly one for a Media playlist.
C9_QualitiesNeverEmpty ==
  (parser # "none" /\ IsValidUrl(sourceUrl) /\ Includes(content, <<"#EXTM3U">>))
    => /\ Len(parsed[1].qualities) >= 1
       /\ parsed[1].type = "media" => Len(parsed[1].qualities) = 1

\* C10: every url in the qualities returned for a valid source URL is an absolute URL,
\* from the server parser and from the client parser alike.
C10_QualityUrlsAbsolute ==
  (parser # "none" /\ IsValidUrl(sourceUrl))
    => \A k \in 1..Len(parsed[1].qualities) : IsValidUrl(parsed[1].qualities[k].url)

(***************************************************************************)
(* Properties of the parser                                                *)
(***************************************************************************)
Marker == <<"#EXTM3U">>

\* the text made of the marker line and the given lines
Playlist(ls) == Join(<<Marker>> \o ls, NL)

\* the lines of the content as the parser scans them
ScannedLines == FilterNonEmpty(MapTrim(Split(content, NL)))

\* the scanned lines that are stream-variant tags: '#EXT-X-STREAM-INF:' and an attribute list
TagLines ==
  {i \in 1..Len(ScannedLines) :
     /\ Len(ScannedLines[i]) >= 2
     /\ ScannedLines[i][1] = "#EXT-X-STREAM-INF"
     /\ ScannedLines[i][2] = ":"}

\* C11: the qualities of every parsed Master playlist are in non-increasing order of
\* bandwidth: each one's bandwidth is at least that of the next.
C11_SortedByBandwidth ==
  (parser # "none" /\ parsed[1].type = "master")
    => \A k \in 1..(Len(parsed[1].qualities) - 1) :
         parsed[1].qualities[k].bandwidth >= parsed[1].qualities[k + 1].bandwidth

\* C11 witness: two variants declared in ascending order come out in descending order
C11_Witness ==
  /\ parser = "server"
  /\ content = Playlist(<< <<"#EXT-X-STREAM-INF", ":", "BANDWIDTH=", "2">>,
                           <<"#EXT-X-STREAM-INF", ":", "BANDWIDTH=", "5", ",", "RESOLUTION=", "1", "x", "2">>,
                           <<"720p", "/", "playlist", ".m3u8">> >>)
  /\ Len(parsed[1].qualities) = 2
  /\ parsed[1].qualities[1].bandwidth = 5
  /\ parsed[1].qualities[2].bandwidth = 2

\* the spellings of NONE that compare equal to it without regard to case
NoneSpellings == {"NONE", "none", "None"}

\* a raw line holds a key tag whose first METHOD attribute has a value other than NONE
DeclaresCipher(line) ==
  \E i \in 1..(Len(line) - 2) :
    /\ line[i] = "#EXT-X-KEY" /\ line[i + 1] = ":"
    /\ \A j \in 1..(i - 1) : ~(line[j] = "#EXT-X-KEY" /\ line[j + 1] = ":")
    /\ \E m \in (i + 2)..(Len(line) - 1) :
         /\ line[m] = "METHOD=" /\ line[m + 1] \notin {",", SP}
         /\ \A j \in (i + 2)..(m - 1) : ~(line[j] = "METHOD=" /\ line[j + 1] \notin {",", SP})
         /\ line[m + 1] \notin NoneSpellings

\* C12: isEncrypted is true exactly when some #EXT-X-KEY tag declares a METHOD whose value
\* is not NONE in any letter case; no key tag, a key tag without METHOD and METHOD=NONE
\* give false, whatever else the playlist holds and in whatever order.
C12_EncryptedIffCipherDeclared ==
  parser # "none" =>
    (parsed[1].isEncrypted <=>
       \E k \in 1..Len(Split(content, NL)) : DeclaresCipher(Split(content, NL)[k]))

\* C12 witness: a METHOD=none tag and a tag without METHOD precede one AES-128 tag
C12_Witness ==
  /\ parser # "none"
  /\ content = Playlist(<< <<"#EXT-X-KEY", ":", "METHOD=", "none", ",", "URI=", "\"", "key", ".bin", "\"">>,
                           <<"#EXT-X-KEY", ":", "URI=", "\"", "key", ".bin", "\"">>,
                           <<"#EXT-X-KEY", ":", "METHOD=", "AES-128">> >>)
  /\ parsed[1].isEncrypted

\* C13: isLive is false exactly when the content holds #EXT-X-ENDLIST, wherever it stands,
\* whatever isEncrypted and the classification are.
C13_LiveIffNoEndList ==
  parser # "none" =>
    (parsed[1].isLive <=> ~(\E i \in 1..Len(content) : content[i] = "#EXT-X-ENDLIST"))

\* C13 witness: the end marker stands before other lines of an encrypted master playlist
C13_Witness ==
  /\ parser # "none"
  /\ content = Playlist(<< <<"#EXT-X-ENDLIST">>,
                           <<"#EXT-X-KEY", ":", "METHOD=", "AES-128">>,
                           <<"#EXT-X-STREAM-INF", ":", "BANDWIDTH=", "2">> >>)
  /\ ~parsed[1].isLive /\ parsed[1].isEncrypted /\ parsed[1].type = "master"

\* C14: the playlist is Master exactly when its content holds #EXT-X-STREAM-INF, Media
\* otherwise, and it is Master exactly when the parser recognises at least one
\* stream-variant tag line.
C14_MasterIffTagRecognised ==
  parser # "none" =>
    /\ parsed[1].type \in {"master", "media"}
    /\ parsed[1].type = "master" <=> (\E i \in 1..Len(content) : content[i] = "#EXT-X-STREAM-INF")
    /\ parsed[1].type = "master" <=> TagLines # {}

\* the attribute list of the tag on scanned line i, cut at its commas
AttributesOf(i) == Split(SubstringFrom(ScannedLines[i], 2), ",")

\* the BANDWIDTH the attribute list of tag line i declares, 0 when it declares none
DeclaredBandwidth(i) ==
  LET as == {k \in 1..Len(AttributesOf(i)) :
               Len(AttributesOf(i)[k]) >= 2 /\ AttributesOf(i)[k][1] = "BANDWIDTH="}
  IN  IF as = {} THEN 0
      ELSE LET a == AttributesOf(i)[CHOOSE k \in as : \A j \in as : k <= j]
           IN  ParseInt(SubSeq(a, 2, Len(a)))

\* the RESOLUTION the attribute list of tag line i declares, unset when it declares none
DeclaredResolution(i) ==
  LET as == {k \in 1..Len(AttributesOf(i)) :
               Len(AttributesOf(i)[k]) >= 2 /\ AttributesOf(i)[k][1] = "RESOLUTION="}
  IN  IF as = {} THEN UnsetFor(parser = "client")
      ELSE LET a == AttributesOf(i)[CHOOSE k \in as : \A j \in as : k <= j]
           IN  SubSeq(a, 2, Len(a))

\* the scanned lines after line i that do not start with '#'
UriLinesAfter(i) ==
  {j \in (i + 1)..Len(ScannedLines) : ScannedLines[j][1] \notin HashLexemes}

\* the variant at position k of the result is the one tag line i declares
IsVariantOf(k, i) ==
  /\ parsed[1].qualities[k].bandwidth = DeclaredBandwidth(i)
  /\ parsed[1].qualities[k].resolution = DeclaredResolution(i)
  /\ UriLinesAfter(i) # {}
  /\ parsed[1].qualities[k].url =
       ResolveFor(parser = "client", sourceUrl,
                  ScannedLines[CHOOSE j \in UriLinesAfter(i) : \A m \in UriLinesAfter(i) : j <= m])

\* C15: in a Master playlist every stream-variant tag yields one variant, with the bandwidth
\* and resolution its attribute list declares (0 and unset when it declares none) and with
\* the url resolved, against the source URL, from the first following line that does not
\* start with '#'.
C15_EveryTagYieldsItsVariant ==
  (parser # "none" /\ IsValidUrl(sourceUrl) /\ parsed[1].type = "master")
    => /\ Len(parsed[1].qualities) = Cardinality(TagLines)
       /\ \A i \in TagLines : \E k \in 1..Len(parsed[1].qualities) : IsVariantOf(k, i)
       /\ \A k \in 1..Len(parsed[1].qualities) : \E i \in TagLines : IsVariantOf(k, i)

\* C16: for a playlist without #EXT-X-STREAM-INF, whatever lines it holds, the parser
\* returns exactly one quality: url the source URL, bandwidth 0, resolution unset.
C16_MediaSingleQuality ==
  (parser # "none" /\ ~(\E i \in 1..Len(content) : content[i] = "#EXT-X-STREAM-INF"))
    => /\ parsed[1].type = "media"
       /\ parsed[1].qualities =
            << [resolution |-> IF parser = "client" THEN <<>> ELSE Null,
                bandwidth |-> 0,
                url |-> sourceUrl] >>

\* C16 witness: a media playlist of two segment lines and the end marker
C16_Witness ==
  /\ parser = "server"
  /\ content = Playlist(<< <<"720p", "/", "playlist", ".m3u8">>,
                           <<SP, "..", "/", "seg", ".ts">>,
                           <<"#EXT-X-ENDLIST">> >>)
  /\ Len(parsed[1].qualities) = 1
  /\ parsed[1].qualities[1].url = sourceUrl

\* a reference with no leading '/', no dot segment, no scheme and no query
IsPlainReference(r) ==
  /\ r # <<>>
  /\ r[1] \notin (HashLexemes \cup SchemeLexemes \cup {"/", SP})
  /\ \A i \in 1..Len(r) : r[i] \notin {"..", ".", "?", SP}

\* C17: for every valid absolute source URL the analysis baseUrl ends in '/' and is the
\* directory-level URL (scheme, host, path up to the last '/' of the path) the resolver
\* resolves against: every plain relative reference of the playlist resolves to baseUrl
\* followed by the reference.
C17_BaseUrlIsDirectory ==
  (parser # "none" /\ IsValidUrl(sourceUrl)) =>
    LET u == NewURL(sourceUrl)
        directory == Origin(u) \o Substring0(u.pathname, LastIndexOf(u.pathname, "/") + 1)
    IN  /\ Len(parsed[1].baseUrl) > 0
        /\ parsed[1].baseUrl[Len(parsed[1].baseUrl)] = "/"
        /\ parsed[1].baseUrl = directory
        /\ \A i \in 1..Len(ScannedLines) :
             IsPlainReference(ScannedLines[i]) =>
               ResolveFor(parser = "client", sourceUrl, ScannedLines[i])
                 = parsed[1].baseUrl \o ScannedLines[i]

\* the variants of the content in the order their tags are encountered
Encountered == CollectVariants(ScannedLines, 1, sourceUrl, parser = "client")

\* the variants of qs that have bandwidth b, in the order they have in qs
OfBandwidth(qs, b) ==
  LET Has(q) == q.bandwidth = b
  IN  SelectSeq(qs, Has)

\* C30: among the variants of a Master playlist that have the same bandwidth (0 for those
\* that declare none), the order in qualities is the order in which their tags were
\* encountered.
C30_TiesKeepEncounterOrder ==
  (parser # "none" /\ parsed[1].type = "master")
    => \A b \in {Encountered[k].bandwidth : k \in 1..Len(Encountered)} :
         OfBandwidth(parsed[1].qualities, b) = OfBandwidth(Encountered, b)

\* C30 witness: two tags that declare no bandwidth, told apart by their resolution, come
\* out in the order they were met
C30_Witness ==
  /\ parser # "none" /\ parsed[1].type = "master"
  /\ Len(ScannedLines) = 4
  /\ ScannedLines[2] = <<"#EXT-X-STREAM-INF", ":", "RESOLUTION=", "1", "x", "2">>
  /\ ScannedLines[3] = <<"#EXT-X-STREAM-INF", ":", "CODECS=", "avc1">>
  /\ Len(parsed[1].qualities) = 2
  /\ parsed[1].qualities[1].bandwidth = 0 /\ parsed[1].qualities[2].bandwidth = 0
  /\ parsed[1].qualities[1].resolution = <<"1", "x", "2">>
  /\ parsed[1].qualities[2].resolution # <<"1", "x", "2">>

(***************************************************************************)
(* Properties of the resolver                                              *)
(***************************************************************************)
HasSchemePrefix(r) ==
  \/ (Len(r) >= 3 /\ r[1] = "http:" /\ r[2] = "/" /\ r[3] = "/")
  \/ (Len(r) >= 3 /\ r[1] = "https:" /\ r[2] = "/" /\ r[3] = "/")

\* C18: whatever the base, valid or malformed, a reference that starts with 'http://' or
\* 'https://' is returned as it is.
C18_AbsoluteReferenceUnchanged ==
  (resolver # "none" /\ HasSchemePrefix(reference)) => result[1] = reference

\* C18 witness: a reference the URL parser would rewrite, resolved against a malformed base
C18_Witness ==
  /\ resolver = "server"
  /\ base = <<"not", SP, "a", SP, "url">>
  /\ reference = <<"http:", "/", "/", "CDN.EXAMPLE.COM", "/", "a", "/", "..", "/", "b", SP, "c",
                   ".ts", "?", "t=", "a", "/", "b">>
  /\ result = <<reference>>

\* C19 as stated: for every valid absolute base and every relative reference the result is
\* an absolute URL, and resolving the result again against the same base returns it.
C19_ResolvedAbsoluteIdempotent ==
  (resolver # "none" /\ IsValidUrl(base) /\ ~HasSchemePrefix(reference))
    => /\ IsValidUrl(result[1])
       /\ again # <<>> => again[1] = result[1]

\* a reference no URL can be made of: empty (refused by the server copy before it
\* resolves) or naming an empty host
IsUnresolvable(r, copy) ==
  \/ (copy = "server" /\ r = <<>>)
  \/ (Len(r) >= 2 /\ r[1] = "/" /\ r[2] = "/" /\ (Len(r) = 2 \/ r[3] = "?"))

\* C19 amended: for every valid absolute base and every reference without scheme prefix,
\* the result is an absolute http(s) URL unless the reference is unresolvable, in which case
\* the server copy returns null and the client copy the reference itself; in every case
\* resolving the result again against the same base returns it.
C19_ResolvedOrRefusedIdempotent ==
  (resolver # "none" /\ IsValidUrl(base) /\ ~HasSchemePrefix(reference))
    => /\ IsUnresolvable(reference, resolver)
            => result[1] = (IF resolver = "server" THEN Null ELSE reference)
       /\ ~IsUnresolvable(reference, resolver)
            => IsValidUrl(result[1]) /\ HasSchemePrefix(result[1])
       /\ again # <<>> => again[1] = result[1]

\* C19 witness: a reference with dot segments, resolved and resolved again
C19_Witness ==
  /\ resolver # "none" /\ again # <<>>
  /\ base = <<"https:", "/", "/", "cdn.example.com", "/", "video", "/", "master", ".m3u8">>
  /\ reference = <<"..", "/", "..", "/", "seg", ".ts">>
  /\ result = << <<"https:", "/", "/", "cdn.example.com", "/", "seg", ".ts">> >>
  /\ again = result

(***************************************************************************)
(* Properties of the streaming branch of the proxy                         *)
(***************************************************************************)
\* C20: the status sent with a streamed proxy response is 206 exactly when the upstream
\* status was 206, and 200 for every other upstream status that reaches the streaming
\* branch.
C20_PartialContentIffUpstream ==
  (inbound.path = "/proxy" /\ promise = "fulfilled" /\ ReturnedHop.mode \in {"pipe", "stalled"})
    => /\ out.headWrites = 1
       /\ out.status \in {200, 206}
       /\ out.status = 206 <=> AnswerOf(ReturnedHop).status = 206

\* C20 witness: an upstream 206 streamed as 206
C20_Witness ==
  /\ inbound.path = "/proxy" /\ promise = "fulfilled"
  /\ ReturnedHop.mode = "pipe"
  /\ AnswerOf(ReturnedHop).status = 206
  /\ out.status = 206

\* the values the response carries under a header name
HeaderValues(headers, name) == {pair[2] : pair \in {q \in headers : q[1] = name}}

\* what upstream sent under a header name: nothing, or its one value
UpstreamValues(value) == IF value = NoHeader THEN {} ELSE {value}

\* C21: no response to a /proxy request carries a Content-Length header, whatever upstream
\* sent; a streamed response carries Content-Range and Accept-Ranges with upstream's exact
\* value exactly when upstream sent them.
C21_NoLengthRangeHeadersVerbatim ==
  inbound.path = "/proxy"
    => /\ HeaderValues(out.headers, "Content-Length") = {}
       /\ (promise = "fulfilled" /\ ReturnedHop.mode \in {"pipe", "stalled"})
            => /\ HeaderValues(out.headers, "Content-Range")
                    = UpstreamValues(AnswerOf(ReturnedHop).contentRange)
               /\ HeaderValues(out.headers, "Accept-Ranges")
                    = UpstreamValues(AnswerOf(ReturnedHop).acceptRanges)

\* C21 witness: a streamed response to an upstream that sent a length and both range headers
C21_Witness ==
  /\ inbound.path = "/proxy" /\ promise = "fulfilled"
  /\ ReturnedHop.mode = "pipe"
  /\ AnswerOf(ReturnedHop).contentLength
  /\ <<"Content-Range", <<"bytes 0-1/2">>>> \in out.headers
  /\ <<"Accept-Ranges", <<"bytes">>>> \in out.headers

(***************************************************************************)
(* Properties of the outbound requests                                     *)
(***************************************************************************)
\* C23: no outbound request made for /analyze carries a Range header, whatever the inbound
\* request carries; every outbound request made for /proxy carries the inbound Range value
\* when the inbound request has one.
C23_RangeOnlyForProxy ==
  \A h \in 1..Len(hops) :
    /\ inbound.path = "/analyze" => hops[h].range = NoHeader
    /\ (inbound.path = "/proxy" /\ inbound.range \notin {NoHeader, <<>>})
         => hops[h].range = inbound.range

\* C23 witness: an /analyze request that came with a Range header and went upstream
C23_Witness ==
  /\ inbound.path = "/analyze"
  /\ inbound.range = <<"bytes=0-1">>
  /\ Len(hops) >= 1
  /\ hops[1].range = NoHeader

\* a 3xx answer with a Location header
IsRedirect(answer) ==
  answer.status >= 300 /\ answer.status < 400 /\ answer.location \notin {NoHeader, <<>>}

\* the URL Resolver's result for a reference that can be resolved, stated on the parsed
\* URLs: the reference resolved against the current URL, except that a reference made of a
\* query alone lands in the directory of the current URL
ResolverTarget(urlString, ref) ==
  LET target == NewURLWithBase(ref, urlString)
      dir == Substring0(target.pathname, LastIndexOf(target.pathname, "/") + 1)
  IN  IF ref[1] = "?" THEN Href([target EXCEPT !.pathname = dir]) ELSE Href(target)

\* hop h was answered with a redirect, and hop h + 1 is the request that follows it
Followed(h) ==
  /\ h < Len(hops)
  /\ NewURLWithBase(AnswerOf(hops[h]).location, hops[h].url).ok
  /\ hops[h + 1].url = ResolverTarget(hops[h].url, AnswerOf(hops[h]).location)
  /\ hops[h + 1].range = hops[h].range

\* C24 as stated: when a hop was answered with a 3xx status and a Location header, a new
\* request has been issued to the resolved Location with the same headers; and the response
\* the caller receives is never a 3xx with a Location.
C24_EveryRedirectFollowed ==
  /\ \A h \in 1..Len(hops) : (hops[h].prof # 0 /\ IsRedirect(AnswerOf(hops[h]))) => Followed(h)
  /\ promise = "fulfilled" => ~IsRedirect(AnswerOf(ReturnedHop))

\* C24: when a hop was answered with a 3xx status and a Location header that resolves to a
\* valid URL, a new request has been issued to the resolved Location with the same headers;
\* when the Location does not resolve, no request follows and the call is rejected (with
\* the URL error, or with the timeout of an earlier hop that rejected it first);
\* the response the caller receives is never a 3xx with a Location.
C24_ResolvableRedirectFollowed ==
  /\ \A h \in 1..Len(hops) :
       (hops[h].prof # 0 /\ IsRedirect(AnswerOf(hops[h])))
         => IF NewURLWithBase(AnswerOf(hops[h]).location, hops[h].url).ok
            THEN Followed(h)
            ELSE h = Len(hops) /\ promise \in {"error", "timeout"}
  /\ promise = "fulfilled" => ~IsRedirect(AnswerOf(ReturnedHop))

\* C24 witness: a relative Location followed with the Range header of the first hop, and the
\* second hop's answer handed to the caller
C24_Witness ==
  /\ Len(hops) = 2
  /\ AnswerOf(hops[1]).location = <<"moved", "/", "master", ".m3u8">>
  /\ hops[1].range = <<"bytes=0-1">>
  /\ hops[2].url = <<"https:", "/", "/", "cdn.example.com", "/", "video", "/", "moved", "/",
                     "master", ".m3u8">>
  /\ promise = "fulfilled"

(***************************************************************************)
(* Properties of the playlist branch of the proxy                          *)
(***************************************************************************)
\* the quoted URI attribute values of a line, in order
RECURSIVE UriValues(_, _)
UriValues(s, i) ==
  IF i > Len(s) THEN <<>>
  ELSE LET close == FirstIn(s, i + 2, {"\""})
       IN  IF i + 1 <= Len(s) /\ s[i] = "URI=" /\ s[i + 1] = "\"" /\ close <= Len(s)
           THEN <<SubSeq(s, i + 2, close - 1)>> \o UriValues(s, close + 1)
           ELSE UriValues(s, i + 1)

\* a line with its quoted URI attribute values taken out
RECURSIVE OutsideUris(_, _)
OutsideUris(s, i) ==
  IF i > Len(s) THEN <<>>
  ELSE LET close == FirstIn(s, i + 2, {"\""})
       IN  IF i + 1 <= Len(s) /\ s[i] = "URI=" /\ s[i + 1] = "\"" /\ close <= Len(s)
           THEN <<"URI=", "\"", "\"">> \o OutsideUris(s, close + 1)
           ELSE <<s[i]>> \o OutsideUris(s, i + 1)

IsAbsoluteUrl(u) == HasSchemePrefix(u) /\ NewURL(u).ok

\* the reference can be made an absolute URL on the requested resource URL
Resolvable(ref) == HasSchemePrefix(ref) \/ NewURLWithBase(ref, inbound.url).ok

\* o is the absolute URL the reference resolves to
ResolvedRef(ref, o) ==
  /\ Resolvable(ref)
  /\ IsAbsoluteUrl(o)
  /\ o = IF HasSchemePrefix(ref) THEN ref ELSE ResolverTarget(inbound.url, ref)

\* what the statement (every = TRUE) or its amendment (every = FALSE) asks of a reference
RefRewritten(ref, o, kept, every) ==
  IF every \/ Resolvable(ref) THEN ResolvedRef(ref, o) ELSE o = kept

\* what is asked of line l of the upstream playlist and line o of the returned text
LineRewritten(l, o, every) ==
  LET t == Trim(l)
  IN  IF t # <<>> /\ t[1] \in HashLexemes /\ UriValues(t, 1) # <<>>
      THEN /\ OutsideUris(o, 1) = OutsideUris(t, 1)
           /\ Len(UriValues(o, 1)) = Len(UriValues(t, 1))
           /\ \A k \in 1..Len(UriValues(t, 1)) :
                RefRewritten(UriValues(t, 1)[k], UriValues(o, 1)[k], UriValues(t, 1)[k], every)
      ELSE IF t # <<>> /\ t[1] \notin HashLexemes
      THEN RefRewritten(t, o, l, every)
      ELSE o = l

\* the /proxy request was answered with the playlist read from upstream
PlaylistReturned ==
  /\ inbound.path = "/proxy"
  /\ promise = "fulfilled"
  /\ ReturnedHop.mode = "buffer" /\ ReturnedHop.st = "complete"

PlaylistRewritten(every) ==
  PlaylistReturned
    => LET from == Split(BufferedText(ReturnedHop), NL)
           to   == Split(out.text, NL)
       IN  /\ out.status = 200 /\ out.ended
           /\ HeaderValues(out.headers, "Content-Type") = {<<"application/vnd.apple.", "mpegurl">>}
           /\ HeaderValues(out.headers, "Cache-Control") = {<<"no-cache">>}
           /\ Len(to) = Len(from)
           /\ \A i \in 1..Len(from) : LineRewritten(from[i], to[i], every)

\* C22 as stated: in the text returned for a playlist fetched through /proxy every
\* reference line and every URI attribute value of a tag is the absolute URL its original
\* resolves to on the requested resource URL, every other line is unchanged, and the
\* response has status 200, a playlist content type and Cache-Control: no-cache.
C22_EveryReferenceAbsolute == PlaylistRewritten(TRUE)

\* C22: the same, for the references that can be resolved; a reference line or a URI
\* attribute value that cannot be resolved is returned as it was.
C22_ResolvableReferencesAbsolute == PlaylistRewritten(FALSE)

\* C22 witness: the media playlist returned with its key URI and its dotted reference
\* rewritten, its empty line and its end tag untouched
C22_Witness ==
  /\ PlaylistReturned
  /\ AnswerOf(ReturnedHop).body = MediaBody
  /\ inbound.url = <<"https:", "/", "/", "cdn.example.com", "/", "video", "/", "master", ".m3u8">>
  /\ LET to == Split(out.text, NL)
     IN  /\ to[2] = <<"#EXT-X-KEY", ":", "METHOD=", "AES-128", ",", "URI=", "\"", "https:", "/", "/",
                      "cdn.example.com", "/", "video", "/", "key", ".bin", "\"">>
         /\ to[3] = <<"https:", "/", "/", "cdn.example.com", "/", "seg", ".ts">>
         /\ to[5] = <<>>
         /\ to[8] = <<"#EXT-X-ENDLIST">>

(***************************************************************************)
(* Properties of the download-link builder                                 *)
(***************************************************************************)
MissingOrMalformed(u) == u \in {Null, <<>>} \/ ~NewURL(u).ok

Denylisted(u) ==
  /\ ~MissingOrMalformed(u)
  /\ \E d \in BLOCKED_DOMAINS : Includes(ToLowerCase(NewURL(u).hostname), <<d>>)

\* the request went past the checks made on its url: /analyze started to fetch,
\* /download-url answered with a link
Accepted ==
  IF inbound.path = "/analyze" THEN Len(hops) >= 1
  ELSE out.status = 200 /\ out.error = "" /\ out.analysis # <<>>

\* C26: /download-url and /analyze accept or reject a url alike: a missing or malformed
\* url is refused as invalid input (400) by both, a denylisted hostname as forbidden (403)
\* by both, and every other url is accepted by both.
C26_SameValidationAsAnalyze ==
  inbound.path \in {"/analyze", "/download-url"}
    => /\ MissingOrMalformed(inbound.url)
            <=> (out.status = 400 /\ out.error \in {"Missing URL", "Invalid URL"} /\ ~Accepted)
       /\ Denylisted(inbound.url)
            <=> (out.status = 403 /\ out.error = "Blocked domain" /\ ~Accepted)
       /\ (~MissingOrMalformed(inbound.url) /\ ~Denylisted(inbound.url)) <=> Accepted

\* C26 witness: the link builder refusing a denylisted hostname written in capitals
C26_Witness ==
  /\ inbound.path = "/download-url"
  /\ inbound.url = <<"https:", "/", "/", "NETFLIX.COM", ".evil.org", "/", "x", ".m3u8">>
  /\ out.status = 403 /\ out.error = "Blocked domain"

\* what the worker reads from the link as parameter name
WorkerReads(name) == SearchParamsGet(SearchOf(out.analysis[1].downloadUrl), name)

\* C27: for every accepted url and optional quality, the worker reads from the query of the
\* built link exactly that url and that quality (none when none was given), and the query
\* has these parameters and no other.
C27_LinkRoundTrip ==
  (inbound.path = "/download-url" /\ Accepted)
    => LET given == inbound.quality \notin {Null, <<>>}
           params == SearchParams(SearchOf(out.analysis[1].downloadUrl))
       IN  /\ WorkerReads("url") = inbound.url
           /\ WorkerReads("quality") = IF given THEN inbound.quality ELSE Null
           /\ [k \in 1..Len(params) |-> params[k].name]
                = IF given THEN << <<"url">>, <<"quality">> >> ELSE << <<"url">> >>

\* C27 witness: a url and a quality that both hold '&', '=', '?' and '#'
C27_Witness ==
  /\ inbound.path = "/download-url" /\ Accepted
  /\ \A x \in {"&", "=", "?", "#"} : \E i \in 1..Len(inbound.url) : inbound.url[i] = x
  /\ \A x \in {"&", "=", "?", "#"} : \E i \in 1..Len(inbound.quality) : inbound.quality[i] = x
  /\ WorkerReads("quality") = inbound.quality

(***************************************************************************)
(* Properties of the page                                                  *)
(***************************************************************************)
\* C25: a download, by the 'Download MP4' path or by the browser-side recording path, is
\* started only while the page shows an analysis that is neither live nor encrypted.
C25_DownloadOnlyWhenPermitted ==
  \A d \in page.started : ~d.isLive /\ ~d.isEncrypted

(***************************************************************************)
(* Properties of the worker                                                *)
(***************************************************************************)
\* C28: when the worker's shutdown handler runs, for SIGTERM or for SIGINT, every ffmpeg
\* process that is alive at that moment is killed.
C28_ShutdownKillsActive ==
  [][signals' # signals
       => \A d \in 1..MaxDownloads :
            downloads[d].ffmpeg \in {"spawning", "running"} => downloads'[d].killed]_vars

(***************************************************************************)
(* Properties of requests in flight together                               *)
(***************************************************************************)
\* the outbound headers request i would be fetched with, were it the only request
HeadersAlone(i) ==
  buildBrowserHeadersFrom(DEFAULT_BROWSER_HEADERS, [range |-> requests[i].range],
                          requests[i].path = "/proxy")

\* the response request i would get, were it the only request
ResponseAlone(i) ==
  LET early == EarlyResponse(requests[i].path, requests[i].url, requests[i].quality)
  IN  IF early # <<>> THEN early
      ELSE IF requests[i].st = "done"
      THEN <<HandlerResponse(requests[i].path, requests[i].url, HeadersAlone(i).Range,
                             requests[i].prof)>>
      ELSE <<>>

ReferenceOf(i) ==
  IF UriLinesAfter(i) = {} THEN Null
  ELSE ScannedLines[CHOOSE j \in UriLinesAfter(i) : \A m \in UriLinesAfter(i) : j <= m]

\* tag line i has a reference, and the reference can be made an absolute URL on the
\* source URL
HasResolvableReference(i) ==
  /\ ReferenceOf(i) # Null
  /\ HasSchemePrefix(ReferenceOf(i)) \/ NewURLWithBase(ReferenceOf(i), sourceUrl).ok

\* C31: in the result of either parser for a Master playlist, the qualities are as many as
\* the stream-variant tags that have a resolvable reference (a tag whose reference is
\* missing or cannot be resolved is dropped, the others are kept), every url is an
\* absolute URL, never null, empty or relative, and every quality is the one of a kept tag.
C31_UnresolvableVariantDropped ==
  (parser # "none" /\ IsValidUrl(sourceUrl) /\ parsed[1].type = "master")
    => /\ Len(parsed[1].qualities) = Cardinality({i \in TagLines : HasResolvableReference(i)})
       /\ \A k \in 1..Len(parsed[1].qualities) :
            /\ parsed[1].qualities[k].url \notin {Null, <<>>}
            /\ IsAbsoluteUrl(parsed[1].qualities[k].url)
            /\ \E i \in TagLines :
                 /\ HasResolvableReference(i)
                 /\ parsed[1].qualities[k].url =
                      ResolveFor(parser = "client", sourceUrl, ReferenceOf(i))

(***************************************************************************)
(* Properties of the worker's downloads                                    *)
(***************************************************************************)
\* the ffmpeg process of download d is alive
Alive(d) == downloads[d].ffmpeg \in {"spawning", "running"}

\* C32: at every moment after the client of a download has closed its connection or
\* aborted its request, the download's ffmpeg process, if it is still alive, has been sent
\* SIGKILL; and a download whose client is gone ends up with no live ffmpeg process.
C32_ClientCloseKillsFfmpeg ==
  /\ [](\A d \in 1..MaxDownloads : (downloads[d].closed /\ Alive(d)) => downloads[d].killed)
  /\ \A d \in 1..MaxDownloads : (downloads[d].closed ~> ~Alive(d))

\* C32 witness: the client left while ffmpeg was streaming, with no signal from the start
\* timer or from a shutdown, and the process was sent SIGKILL
C32_Witness ==
  \E d \in 1..MaxDownloads :
    /\ downloads[d].closed
    /\ downloads[d].ffmpeg = "running"
    /\ downloads[d].hasStarted /\ ~downloads[d].hasError
    /\ downloads[d].killed
    /\ signals = <<>>

\* C33: when the 'error' event reports that ffmpeg could not be spawned, or the 'close' event
\* reports a non-zero exit code before any output was emitted, the response of the download
\* has status 500 and carries an error payload.
C33_FfmpegFailureAnswered500 ==
  [][\A d \in 1..MaxDownloads :
       (\/ FfmpegSpawnError(d)
        \/ FfmpegClose(d, "1") /\ ~downloads[d].hasStarted)
         => downloads'[d].status = 500 /\ downloads'[d].error # ""]_vars

(***************************************************************************)
(* Properties of the outbound requests of a finished call                  *)
(***************************************************************************)
\* the inbound request is over: its response was ended or its client is gone
Finished == pc = "done" \/ out.ended \/ out.closed

\* C34: once a /proxy or /analyze request is over, every outbound request opened for it,
\* the hops that were answered with a redirect and the one whose response was handed to the
\* handler, has been read to its end or destroyed (or has failed): none is waiting for its
\* response or holding a response that nobody reads.
C34_NoUpstreamLeftOpen ==
  (inbound.path \in {"/analyze", "/proxy"} /\ Finished)
    => \A h \in 1..Len(hops) : ~LiveHop(hops[h])

\* C35: the fetcher stops following redirects of its own accord: against an upstream that
\* answers every request with a redirect, the chain of outbound requests ends before it is
\* MaxRedirects + 1 requests long, the length at which the model stops following.
C35_RedirectChainEnds ==
  (inbound.path \in {"/analyze", "/proxy"}
   /\ \A h \in 1..Len(hops) : hops[h].prof # 0 => IsRedirect(AnswerOf(hops[h])))
    => Len(hops) <= MaxRedirects

\* C36: no outbound request made for an /analyze call goes to a hostname that contains a
\* denylisted domain, whether it is the request for the submitted url or one that follows
\* a redirect.
C36_NoDenylistedHop ==
  inbound.path = "/analyze"
    => \A h \in 1..Len(hops) :
         LET u == NewURL(hops[h].url)
         IN  ~(u.ok /\ \E d \in BLOCKED_DOMAINS : Includes(ToLowerCase(u.hostname), <<d>>))

(***************************************************************************)
(* Properties of the two parsers taken together                            *)
(***************************************************************************)
\* a resolution with the sentinel of either parser read as one value
Unsentinelled(resolution) == IF resolution \in {Null, <<>>} THEN <<"unset">> ELSE resolution

\* two analyses agree: same type, isLive, isEncrypted, baseUrl, and the same qualities in
\* the same order, their resolutions compared up to the sentinel
SameAnalysis(a, b) ==
  /\ a.type = b.type
  /\ a.isLive = b.isLive
  /\ a.isEncrypted = b.isEncrypted
  /\ a.baseUrl = b.baseUrl
  /\ Len(a.qualities) = Len(b.qualities)
  /\ \A k \in 1..Len(a.qualities) :
       k <= Len(b.qualities)
         => /\ a.qualities[k].bandwidth = b.qualities[k].bandwidth
            /\ a.qualities[k].url = b.qualities[k].url
            /\ Unsentinelled(a.qualities[k].resolution) = Unsentinelled(b.qualities[k].resolution)

\* C37: for every content and every source URL that passes the server's validation, what
\* one parser returned agrees with what the other parser returns for the same content and
\* source URL.
C37_ParsersEquivalent ==
  (parser # "none" /\ IsValidUrl(sourceUrl))
    => SameAnalysis(parsed[1],
                    IF parser = "server" THEN parseM3u8Client(content, sourceUrl)
                    ELSE parseM3u8(content, sourceUrl))

(***************************************************************************)
(* Properties of the rewriting applied again                               *)
(***************************************************************************)
\* C38: the text returned for a playlist fetched through /proxy is a fixed point of the
\* rewrite: rewriting it again, on the same resource URL, returns it unchanged.
C38_RewriteIdempotent ==
  PlaylistReturned => RewritePlaylist(out.text, inbound.url) = out.text

\* C38 witness: a returned playlist that the rewrite changed (references resolved, a
\* reference line trimmed) and in which the references that name no host were left
C38_Witness ==
  /\ PlaylistReturned
  /\ AnswerOf(ReturnedHop).body = MediaBody
  /\ out.text # BufferedText(ReturnedHop)
  /\ LET to == Split(out.text, NL)
     IN  /\ to[4] = <<"/", "/">>
         /\ to[6] = <<"#EXT-X-KEY", ":", "URI=", "\"", "/", "/", "\"">>
         /\ to[7] = <<"https:", "/", "/", "cdn2.example.com", "/", "v", ".m3u8">>
  /\ RewritePlaylist(out.text, inbound.url) = out.text

(***************************************************************************)
(* Properties of the client downloader                                     *)
(***************************************************************************)
\* C39: when the load timer of a startDownload fires while the download has not been
\* cancelled and the phase is still 'loading', the phase becomes 'error' with the
\* stream-load-timeout message, and the iframe and the message listener are gone.
C39_LoadTimeoutEndsLoading ==
  [][\A t \in 1..Len(downloader.timers) :
       (/\ ~downloader.timers[t].fired /\ downloader'.timers[t].fired
        /\ ~downloader.cancelled
        /\ downloader.phase = "loading")
         => /\ downloader'.phase = "error"
            /\ downloader'.error = "Stream load timeout"
            /\ ~downloader'.iframe /\ ~downloader'.listener]_vars

====
